---- MODULE Spec2Model ----
(***************************************************************************)
(* Model of llm-git-commit (src/src/llm_git_commit/__init__.py).           *)
(*                                                                         *)
(* The chat refinement session _chat_for_refinement is a state machine:    *)
(* one action per suspension point of the coroutine (the query prompt, the *)
(* model call, the apply confirmation, the proposal confirmation).  Text   *)
(* is a sequence of one-character strings, so that str.strip, str.lower,   *)
(* str.find and slicing are computed as Python computes them.              *)
(***************************************************************************)
EXTENDS Integers, Sequences, FiniteSets, TLC

(***************************************************************************)
(* Bounds of the model.                                                    *)
(***************************************************************************)
\* chat queries per session (the code has no turn limit)
MaxTurns == 2
\* pieces a model reply is concatenated from, in SpecParse
MaxPieces == 6

(***************************************************************************)
(* Python values.                                                          *)
(***************************************************************************)
\* Optional values: None is the empty tuple, a present value a 1-tuple.
None == <<>>
Some(x) == <<x>>

Upper == <<"A","B","C","D","E","F","G","H","I","J","K","L","M","N","O","P","Q","R","S","T","U","V","W","X","Y","Z">>
Lower == <<"a","b","c","d","e","f","g","h","i","j","k","l","m","n","o","p","q","r","s","t","u","v","w","x","y","z">>

\* the characters str.strip() removes (the ASCII ones the model uses)
Whitespace == {" ", "\t", "\n", "\r", "\f"}

IsBlank(s) == \A i \in DOMAIN s : s[i] \in Whitespace

\* s.strip()
Strip(s) ==
    IF IsBlank(s) THEN <<>>
    ELSE LET \* the whitespace characters at the front and at the back
             lead == CHOOSE n \in 0..(Len(s) - 1) :
                        /\ s[n + 1] \notin Whitespace
                        /\ \A j \in 1..n : s[j] \in Whitespace
             trail == CHOOSE n \in 0..(Len(s) - 1) :
                        /\ s[Len(s) - n] \notin Whitespace
                        /\ \A j \in 1..n : s[Len(s) + 1 - j] \in Whitespace
         IN SubSeq(s, lead + 1, Len(s) - trail)

LowerChar(c) ==
    IF \E i \in DOMAIN Upper : Upper[i] = c
    THEN Lower[CHOOSE i \in DOMAIN Upper : Upper[i] = c]
    ELSE c

\* s.lower()
ToLower(s) == [i \in DOMAIN s |-> LowerChar(s[i])]

\* s[a:b] with 0 <= a, b (Python's 0-based, end-exclusive slice)
Slice(s, a, b) == SubSeq(s, a + 1, IF b > Len(s) THEN Len(s) ELSE b)

\* s.find(sub, start): the lowest 0-based index >= start where sub occurs, or -1
Find(s, sub, start) ==
    LET hits == {i \in start..(Len(s) - Len(sub)) :
                    /\ s[i + 1] = sub[1]
                    /\ \A k \in 1..Len(sub) : s[i + k] = sub[k]}
    IN IF hits = {} THEN -1
       ELSE CHOOSE i \in hits : \A j \in hits : i <= j

\* "\n".join(parts)
RECURSIVE JoinLines(_)
JoinLines(parts) ==
    IF parts = <<>> THEN <<>>
    ELSE IF Len(parts) = 1 THEN parts[1]
    ELSE parts[1] \o <<"\n">> \o JoinLines(Tail(parts))

\* list(filter(None, parts)): the non-empty strings of parts, in order
RECURSIVE FilterNone(_)
FilterNone(parts) ==
    IF parts = <<>> THEN <<>>
    ELSE IF parts[1] = <<>> THEN FilterNone(Tail(parts))
    ELSE <<parts[1]>> \o FilterNone(Tail(parts))

\* concatenation of a sequence of strings
RECURSIVE Cat(_)
Cat(parts) == IF parts = <<>> THEN <<>> ELSE parts[1] \o Cat(Tail(parts))

(***************************************************************************)
(* Program constants.                                                      *)
(***************************************************************************)
PROPOSED_COMMIT_MARKER_START == <<"P","R","O","P","O","S","E","D","_","C","O","M","M","I","T","_","M","E","S","S","A","G","E","_","S","T","A","R","T">>
PROPOSED_COMMIT_MARKER_END == <<"P","R","O","P","O","S","E","D","_","C","O","M","M","I","T","_","M","E","S","S","A","G","E","_","E","N","D">>

\* the command tokens compared at lines 987-994
CancelCommand == <<"/","c","a","n","c","e","l">>
ApplyCommand == <<"/","a","p","p","l","y">>

\* history notes of lines 1087, 1110, 1117
LLMErrorPrefix == <<"(","L","L","M"," ","E","r","r","o","r",":"," ">>
AcceptedNote == <<"(","U","s","e","r"," ","a","c","c","e","p","t","e","d"," ","L","L","M","'","s"," ","p","r","o","p","o","s","a","l"," ","t","o"," ","u","p","d","a","t","e"," ","d","r","a","f","t",")">>
RejectedNote == <<"(","L","L","M"," ","m","a","d","e"," ","a"," ","p","r","o","p","o","s","a","l"," ","w","h","i","c","h"," ","w","a","s"," ","r","e","j","e","c","t","e","d"," ","b","y"," ","t","h","e"," ","u","s","e","r",".",")">>

(***************************************************************************)
(* Reply parsing: lines 1050-1078 of _chat_for_refinement.                 *)
(***************************************************************************)
\* StartMarkerIdx taking the last start marker of the reply
StartMarkerIdxLast(text) ==
    LET hits == {i \in 0..(Len(text) - Len(PROPOSED_COMMIT_MARKER_START)) :
                    \A k \in 1..Len(PROPOSED_COMMIT_MARKER_START) :
                        text[i + k] = PROPOSED_COMMIT_MARKER_START[k]}
    IN IF hits = {} THEN -1
       ELSE CHOOSE i \in hits : \A j \in hits : i >= j

\* start_marker_idx (line 1054)
StartMarkerIdx(text) == Find(text, PROPOSED_COMMIT_MARKER_START, 0)

\* EndMarkerIdx taking the last end marker after the start marker
EndMarkerIdxLast(text, start_marker_idx) ==
    LET from == start_marker_idx + Len(PROPOSED_COMMIT_MARKER_START)
        hits == {i \in from..(Len(text) - Len(PROPOSED_COMMIT_MARKER_END)) :
                    \A k \in 1..Len(PROPOSED_COMMIT_MARKER_END) :
                        text[i + k] = PROPOSED_COMMIT_MARKER_END[k]}
    IN IF start_marker_idx = -1 \/ hits = {} THEN -1
       ELSE CHOOSE i \in hits : \A j \in hits : i >= j

\* EndMarkerIdx searching the whole reply
EndMarkerIdxFromZero(text, start_marker_idx) ==
    IF start_marker_idx # -1
    THEN Find(text, PROPOSED_COMMIT_MARKER_END, 0)
    ELSE -1

\* end_marker_idx (lines 1055-1057): searched only after the start marker's end
EndMarkerIdx(text, start_marker_idx) ==
    IF start_marker_idx # -1
    THEN Find(text, PROPOSED_COMMIT_MARKER_END,
              start_marker_idx + Len(PROPOSED_COMMIT_MARKER_START))
    ELSE -1

\* conv_before (line 1060)
ConvBefore(text, start_marker_idx) == Strip(Slice(text, 0, start_marker_idx))

\* TempExtracted slicing from the start marker itself
TempExtractedFromMarker(text, start_marker_idx, end_marker_idx) ==
    Strip(Slice(text, start_marker_idx, end_marker_idx))

\* temp_extracted (lines 1063-1064)
TempExtracted(text, start_marker_idx, end_marker_idx) ==
    LET proposal_start_content_idx ==
            start_marker_idx + Len(PROPOSED_COMMIT_MARKER_START)
    IN Strip(Slice(text, proposal_start_content_idx, end_marker_idx))

\* ConvAfter slicing from the end marker itself
ConvAfterWithMarker(text, end_marker_idx) ==
    Strip(Slice(text, end_marker_idx, Len(text)))

\* conv_after (line 1071)
ConvAfter(text, end_marker_idx) ==
    Strip(Slice(text, end_marker_idx + Len(PROPOSED_COMMIT_MARKER_END), Len(text)))

\* line 1074
ConversationalText(conv_before, conv_after) ==
    Strip(JoinLines(FilterNone(<<conv_before, conv_after>>)))

\* lines 1050-1052: the reply is blank; last_marker_proposal_text is left as it was
ParseBlank(last_marker) ==
    [extracted_proposal_text |-> None,
     conversational_parts_to_print |-> <<>>,
     conversational_text |-> <<>>,
     last_marker_proposal_text |-> last_marker,
     echo |-> "(LLM returned no text)"]

\* ParsePaired falling back to the whole reply when the proposal is blank
ParsePairedWholeReply(text, start_marker_idx, end_marker_idx) ==
    LET conv_before == ConvBefore(text, start_marker_idx)
        temp_extracted == TempExtracted(text, start_marker_idx, end_marker_idx)
        conv_after == ConvAfter(text, end_marker_idx)
    IN IF temp_extracted = <<>>
       THEN [extracted_proposal_text |-> None,
             conversational_parts_to_print |-> <<Strip(text)>>,
             conversational_text |-> Strip(text),
             last_marker_proposal_text |-> None,
             echo |-> "LLM:"]
       ELSE [extracted_proposal_text |-> Some(temp_extracted),
             conversational_parts_to_print |-> FilterNone(<<conv_before, conv_after>>),
             conversational_text |-> ConversationalText(conv_before, conv_after),
             last_marker_proposal_text |-> Some(temp_extracted),
             echo |-> "LLM:"]

\* ParsePaired taking a blank marker block for a proposal
ParsePairedBlankProposal(text, start_marker_idx, end_marker_idx) ==
    LET conv_before == ConvBefore(text, start_marker_idx)
        temp_extracted == TempExtracted(text, start_marker_idx, end_marker_idx)
        conv_after == ConvAfter(text, end_marker_idx)
    IN [extracted_proposal_text |-> Some(temp_extracted),
        conversational_parts_to_print |-> FilterNone(<<conv_before, conv_after>>),
        conversational_text |-> ConversationalText(conv_before, conv_after),
        last_marker_proposal_text |-> Some(temp_extracted),
        echo |-> "LLM:"]

\* lines 1059-1074: both markers were found
ParsePaired(text, start_marker_idx, end_marker_idx) ==
    LET conv_before == ConvBefore(text, start_marker_idx)
        temp_extracted == TempExtracted(text, start_marker_idx, end_marker_idx)
        conv_after == ConvAfter(text, end_marker_idx)
    IN [extracted_proposal_text |->
            IF temp_extracted # <<>> THEN Some(temp_extracted) ELSE None,
        conversational_parts_to_print |-> FilterNone(<<conv_before, conv_after>>),
        conversational_text |-> ConversationalText(conv_before, conv_after),
        last_marker_proposal_text |->
            IF temp_extracted # <<>> THEN Some(temp_extracted) ELSE None,
        echo |-> "LLM:"]

\* ParseUnpaired without the strip
ParseUnpairedRaw(text) ==
    [extracted_proposal_text |-> None,
     conversational_parts_to_print |-> <<text>>,
     conversational_text |-> text,
     last_marker_proposal_text |-> None,
     echo |-> "LLM:"]

\* lines 1075-1078: no pair of markers
ParseUnpaired(text) ==
    [extracted_proposal_text |-> None,
     conversational_parts_to_print |-> <<Strip(text)>>,
     conversational_text |-> Strip(text),
     last_marker_proposal_text |-> None,
     echo |-> "LLM:"]

\* lines 1050-1078: the locals the parsing leaves behind, given the reply text
\* and the value last_marker_proposal_text had before the turn
ParseReply(text, last_marker) ==
    LET start_marker_idx == StartMarkerIdx(text)
        end_marker_idx == EndMarkerIdx(text, start_marker_idx)
    IN IF Strip(text) = <<>>
       THEN ParseBlank(last_marker)
       ELSE IF start_marker_idx # -1 /\ end_marker_idx # -1
       THEN ParsePaired(text, start_marker_idx, end_marker_idx)
       ELSE ParseUnpaired(text)

(***************************************************************************)
(* Inputs of the environment.                                              *)
(***************************************************************************)
\* seed drafts handed to the session (the editor buffer at Ctrl+I)
Seeds == { <<>>, <<" ">>, <<"s">> }

\* the seed drafts of SpecParse
ParseSeeds == { <<"s">> }

Diffs == { <<"d">> }

\* What happens at a prompt_async(): a line is submitted, Ctrl+A ends the
\* prompt with text in the buffer, or Ctrl+C / Ctrl+D raises.
TextEvent(t) == [kind |-> "text", text |-> t]
CtrlAEvent(t) == [kind |-> "ctrl_a", text |-> t]
KeyboardInterrupt == [kind |-> "KeyboardInterrupt", text |-> <<>>]
EOFError == [kind |-> "EOFError", text |-> <<>>]
\* What the model call does: it returns a reply or raises Exception(msg).
ReplyEvent(t) == [kind |-> "reply", text |-> t]
ExceptionEvent(msg) == [kind |-> "Exception", text |-> msg]
NoEvent == [kind |-> "none", text |-> <<>>]

QueryLines ==
    { <<>>, <<" ">>,
      CancelCommand, <<" ","/","C","a","n","c","e","l"," ">>,
      ApplyCommand, <<"/","A","P","P","L","Y"," ">>,
      <<" ","b"," ">> }

QueryEvents ==
    {TextEvent(t) : t \in QueryLines}
        \cup {CtrlAEvent(t) : t \in {<<>>, <<"a">>}}
        \cup {KeyboardInterrupt, EOFError}

ConfirmLines ==
    { <<>>, <<" ">>, <<"y">>, <<" ","Y"," ">>, <<"n">>, <<"N">>,
      <<"y","e","s">>, <<"x">> }

ConfirmEvents ==
    {TextEvent(t) : t \in ConfirmLines} \cup {KeyboardInterrupt, EOFError}

\* str(e) of an exception raised by the model call
ErrorMessages == { <<"e">> }

\* The text a reply of SpecParse is made of besides the markers and blanks: the
\* stem the two markers share, the text closest to a marker that is none.
MarkerStem == <<"P","R","O","P","O","S","E","D","_","C","O","M","M","I","T","_","M","E","S","S","A","G","E","_">>

\* replies of the model in a session: one of each shape the parsing tells apart
SessionReplies ==
    { <<>>,
      <<" ">>,
      <<"a">>,
      Cat(<<<<"a","\n">>, PROPOSED_COMMIT_MARKER_START, <<"\n","p","\n">>, PROPOSED_COMMIT_MARKER_END>>),
      Cat(<<PROPOSED_COMMIT_MARKER_START, <<"q"," ">>, PROPOSED_COMMIT_MARKER_END>>),
      Cat(<<PROPOSED_COMMIT_MARKER_START, <<" ">>, PROPOSED_COMMIT_MARKER_END>>),
      Cat(<<<<"a">>, PROPOSED_COMMIT_MARKER_START, PROPOSED_COMMIT_MARKER_END, <<" ","c">>>>) }

\* replies in SpecParse: every concatenation of at most MaxPieces pieces
Pieces == { PROPOSED_COMMIT_MARKER_START, PROPOSED_COMMIT_MARKER_END, MarkerStem, <<" ">> }

PieceSeqs == UNION { [1..n -> Pieces] : n \in 0..MaxPieces }

AllReplies == { Cat(ps) : ps \in PieceSeqs }

(***************************************************************************)
(* The chat system prompt (lines 273-334, 938-943).  Of the template's     *)
(* fixed text the model keeps the delimiter lines around the two fields.   *)
(***************************************************************************)
TemplateDiffStart == <<"-","-","-"," ","D","I","F","F"," ","S","T","A","R","T"," ","-","-","-","\n">>
TemplateDraftStart == <<"\n","-","-","-"," ","D","I","F","F"," ","E","N","D"," ","-","-","-","\n","-","-","-"," ","C","U","R","R","E","N","T"," ","D","R","A","F","T"," ","S","T","A","R","T"," ","-","-","-","\n">>
TemplateDraftEnd == <<"\n","-","-","-"," ","C","U","R","R","E","N","T"," ","D","R","A","F","T"," ","E","N","D"," ","-","-","-","\n">>

CHAT_REFINEMENT_SYSTEM_PROMPT_TEMPLATE(diff, draft) ==
    Cat(<<TemplateDiffStart, diff, TemplateDraftStart, draft, TemplateDraftEnd>>)

(***************************************************************************)
(* The command line: values and pure functions.                            *)
(***************************************************************************)
\* `if x:` for an optional string: neither None nor empty
Truthy(x) == x # None /\ x[1] # <<>>

\* dict.get(key, default) and `x or default`, on an optional value
Get(x, default) == IF x = None THEN default ELSE x[1]

\* the editor modes of lines 166-169
InternalMode == <<"i","n","t","e","r","n","a","l">>
EnvMode == <<"e","n","v">>
CommandMode == <<"c","o","m","m","a","n","d">>

DEFAULT_PROMPT_STYLE == <<"c","o","n","v","e","n","t","i","o","n","a","l">>

\* lines 115-120, its first words standing for the whole text
DEFAULT_GIT_COMMIT_SYSTEM_PROMPT == <<"Y","o","u"," ","a","r","e"," ","a","n"," ","e","x","p","e","r","t">>

\* lines 236-241, one comment line standing for the four
help_text == <<"\n","#"," ","E","d","i","t","\n">>

\* s.splitlines() for text whose line ends are "\n"
RECURSIVE SplitLines(_)
SplitLines(s) ==
    IF s = <<>> THEN <<>>
    ELSE LET nl == Find(s, <<"\n">>, 0)
         IN IF nl = -1 THEN <<s>>
            ELSE <<Slice(s, 0, nl)>> \o SplitLines(Slice(s, nl + 1, Len(s)))

\* [line for line in lines if not line.startswith('#')]
RECURSIVE DropComments(_)
DropComments(lines) ==
    IF lines = <<>> THEN <<>>
    ELSE IF lines[1] # <<>> /\ lines[1][1] = "#" THEN DropComments(Tail(lines))
    ELSE <<lines[1]>> \o DropComments(Tail(lines))

\* get_editor_from_env returning the last set variable instead of the first
get_editor_from_env_reversed(env, git) ==
    IF Truthy(env.EDITOR) THEN env.EDITOR
    ELSE IF Truthy(env.VISUAL) THEN env.VISUAL
    ELSE IF git.kind = "completed" /\ git.returncode = 0 /\ Strip(git.stdout) # <<>>
    THEN Some(Strip(git.stdout))
    ELSE env.LLM_GIT_COMMIT_EDITOR

\* lines 171-194
get_editor_from_env(env, git) ==
    IF Truthy(env.LLM_GIT_COMMIT_EDITOR) THEN env.LLM_GIT_COMMIT_EDITOR
    ELSE IF git.kind = "completed" /\ git.returncode = 0 /\ Strip(git.stdout) # <<>>
    THEN Some(Strip(git.stdout))
    ELSE IF Truthy(env.VISUAL) THEN env.VISUAL
    ELSE env.EDITOR

\* lines 197-227: (mode, editor_command)
resolve_editor(cfg, use_external_flag, env, git) ==
    LET editor_config ==
            IF use_external_flag /\ Get(cfg.editor, InternalMode) = InternalMode
            THEN EnvMode
            ELSE Get(cfg.editor, InternalMode)
    IN IF editor_config = InternalMode THEN <<InternalMode, None>>
       ELSE IF editor_config = EnvMode
       THEN IF Truthy(get_editor_from_env(env, git))
            THEN <<EnvMode, get_editor_from_env(env, git)>>
            ELSE <<InternalMode, None>>
       ELSE <<CommandMode, Some(editor_config)>>

\* SelectedEditor letting the persisted setting win over the option
SelectedEditorConfigFirst(override, cfg, env, git) ==
    IF cfg.editor # None THEN resolve_editor(cfg, FALSE, env, git)
    ELSE IF Truthy(override)
    THEN IF override[1] = EnvMode THEN <<EnvMode, get_editor_from_env(env, git)>>
         ELSE IF override[1] = InternalMode THEN <<InternalMode, None>>
         ELSE <<CommandMode, override>>
    ELSE <<InternalMode, None>>

\* lines 535-543: (editor_mode, editor_cmd) of git_commit_command
SelectedEditor(override, cfg, env, git) ==
    IF Truthy(override)
    THEN IF override[1] = EnvMode THEN <<EnvMode, get_editor_from_env(env, git)>>
         ELSE IF override[1] = InternalMode THEN <<InternalMode, None>>
         ELSE <<CommandMode, override>>
    ELSE resolve_editor(cfg, FALSE, env, git)

\* lines 535-543, 219-220: the selection calls get_editor_from_env
ReadsEnvironment(override, cfg) ==
    IF Truthy(override) THEN override[1] = EnvMode
    ELSE Get(cfg.editor, InternalMode) = EnvMode

\* UsesInternalEditor going by the mode alone
UsesInternalEditorModeOnly(mode, cmd) == mode = InternalMode

\* lines 545-553: the built-in editor is opened (mode internal, or no command)
UsesInternalEditor(mode, cmd) == mode = InternalMode \/ ~Truthy(cmd)

\* lines 73-91: the stripped text of the style's file in the prompts directory,
\* else of the packaged file, else None
get_prompt_content(files, prompt_name) ==
    IF files.dir[prompt_name] # None THEN Some(Strip(files.dir[prompt_name][1]))
    ELSE IF files.package[prompt_name] # None
    THEN Some(Strip(files.package[prompt_name][1]))
    ELSE None

\* what get_system_prompt does: it returns a text or raises ValueError
Returns(text) == [kind |-> "return", text |-> text]
ValueError == [kind |-> "ValueError", text |-> <<>>]

\* get_system_prompt falling through when the style of -p is not found
get_system_prompt_lenient(cfg, prompt_style_override, system_override, files) ==
    IF Truthy(system_override) THEN Returns(system_override[1])
    ELSE IF Truthy(prompt_style_override)
            /\ Truthy(get_prompt_content(files, prompt_style_override[1]))
    THEN Returns(get_prompt_content(files, prompt_style_override[1])[1])
    ELSE IF Truthy(cfg.prompt) /\ Truthy(get_prompt_content(files, cfg.prompt[1]))
    THEN Returns(get_prompt_content(files, cfg.prompt[1])[1])
    ELSE IF Truthy(get_prompt_content(files, DEFAULT_PROMPT_STYLE))
    THEN Returns(get_prompt_content(files, DEFAULT_PROMPT_STYLE)[1])
    ELSE Returns(DEFAULT_GIT_COMMIT_SYSTEM_PROMPT)

\* lines 123-162
get_system_prompt(cfg, prompt_style_override, system_override, files) ==
    IF Truthy(system_override) THEN Returns(system_override[1])
    ELSE IF Truthy(prompt_style_override)
    THEN IF Truthy(get_prompt_content(files, prompt_style_override[1]))
         THEN Returns(get_prompt_content(files, prompt_style_override[1])[1])
         ELSE ValueError
    ELSE IF Truthy(cfg.prompt) /\ Truthy(get_prompt_content(files, cfg.prompt[1]))
    THEN Returns(get_prompt_content(files, cfg.prompt[1])[1])
    ELSE IF Truthy(cfg.prompt_style)
            /\ Truthy(get_prompt_content(files, cfg.prompt_style[1]))
    THEN Returns(get_prompt_content(files, cfg.prompt_style[1])[1])
    ELSE IF Truthy(get_prompt_content(files, DEFAULT_PROMPT_STYLE))
    THEN Returns(get_prompt_content(files, DEFAULT_PROMPT_STYLE)[1])
    ELSE Returns(DEFAULT_GIT_COMMIT_SYSTEM_PROMPT)

\* click.confirm answering yes to an empty line whatever the default
ClickConfirmEmptyYes(answer, default) ==
    IF ToLower(Strip(answer)) \in {<<"y">>, <<"y","e","s">>} THEN TRUE
    ELSE IF ToLower(Strip(answer)) \in {<<"n">>, <<"n","o">>} THEN FALSE
    ELSE TRUE

\* click.confirm(text, default) as called at lines 437, 657, 866 and 883, on
\* an answer it accepts: y/yes, n/no in any case, or an empty line for the default
ClickConfirm(answer, default) ==
    IF ToLower(Strip(answer)) \in {<<"y">>, <<"y","e","s">>} THEN TRUE
    ELSE IF ToLower(Strip(answer)) \in {<<"n">>, <<"n","o">>} THEN FALSE
    ELSE default

\* lines 242-246: what the temporary file holds when the editor opens it
TempFileContent(initial_text) == initial_text \o <<"\n">> \o help_text

\* lines 256-263: the result for the content the editor left
EditedText(content) ==
    LET edited_text == Strip(JoinLines(DropComments(SplitLines(content))))
    IN IF edited_text # <<>> THEN Some(edited_text) ELSE None

\* Unlinked leaving the file in place
UnlinkedKept(file) == file

\* lines 264-269: the temporary file after the finally block
Unlinked(file) == None

\* MayCommit without the strip
MayCommitNoStrip(message) == message # None /\ message[1] # <<>>

\* line 555: the final message may be committed
MayCommit(message) == message # None /\ Strip(message[1]) # <<>>

(***************************************************************************)
(* The command line: inputs of the environment.                            *)
(***************************************************************************)
Vim == <<"v","i","m">>
Nano == <<"n","a","n","o">>

\* values of -e/--editor: absent, the flag alone ("env"), a mode, a command
EditorOptions == { None, Some(EnvMode), Some(InternalMode), Some(Vim) }

\* values of the persisted "editor" key: absent, the modes, a command
PersistedEditors == { None, Some(InternalMode), Some(EnvMode), Some(Nano) }

NoConfig == [editor |-> None, prompt |-> None, prompt_style |-> None]

Options(y, e, p, s, d) ==
    [yes |-> y, editor_override |-> e, prompt_style |-> p,
     system_prompt_override |-> s, diff_mode |-> d]

\* the command lines of 'llm git-commit' of the model
CommandLines ==
    { Options(FALSE, e, None, None, "staged") : e \in EditorOptions }
        \cup { Options(TRUE, None, p, None, d) :
                  p \in {None, Some(<<"u">>)}, d \in {"staged", "tracked"} }
        \cup { Options(FALSE, None, None, Some(<<"S">>), "tracked") }

Configs == { [NoConfig EXCEPT !.editor = e] : e \in PersistedEditors }

\* style names: the default one, a known one, a legacy one, an unknown one
PromptNames == { DEFAULT_PROMPT_STYLE, <<"k">>, <<"l">>, <<"u">> }

NoFiles == [n \in PromptNames |-> None]

\* the prompts directory and the packaged prompts
PromptStores ==
    { [dir |-> [NoFiles EXCEPT ![DEFAULT_PROMPT_STYLE] = Some(<<"C","\n">>),
                               ![<<"k">>] = Some(<<" ","K"," ">>),
                               ![<<"l">>] = Some(<<"L">>)],
       package |-> [NoFiles EXCEPT ![DEFAULT_PROMPT_STYLE] = Some(<<"P">>)]],
      [dir |-> NoFiles,
       package |-> [NoFiles EXCEPT ![DEFAULT_PROMPT_STYLE] = Some(<<"P","\n">>),
                                   ![<<"k">>] = Some(<<"Q">>)]],
      [dir |-> [NoFiles EXCEPT ![<<"k">>] = Some(<<" ","\n">>),
                               ![<<"l">>] = Some(<<"L">>)],
       package |-> NoFiles],
      [dir |-> NoFiles, package |-> NoFiles] }

InstalledPrompts == CHOOSE files \in PromptStores : files.dir[<<"l">>] # None
                                                   /\ files.package[DEFAULT_PROMPT_STYLE] # None

\* os.environ and the run of 'git config core.editor'
Environment(l, v, e) == [LLM_GIT_COMMIT_EDITOR |-> l, VISUAL |-> v, EDITOR |-> e]
NoEnvironment == Environment(None, None, None)

Completed(returncode, stdout) ==
    [kind |-> "completed", returncode |-> returncode, stdout |-> stdout]
FileNotFoundError == [kind |-> "FileNotFoundError", returncode |-> 0, stdout |-> <<>>]
CalledProcessError == [kind |-> "CalledProcessError", returncode |-> 1, stdout |-> <<>>]
NotRun == [kind |-> "not run", returncode |-> 0, stdout |-> <<>>]

GitConfigResults ==
    { FileNotFoundError, Completed(1, <<>>), Completed(1, <<"g","\n">>),
      Completed(0, <<>>), Completed(0, <<" ","\n">>), Completed(0, <<"g","\n">>) }

\* every combination of unset, empty and set for the three variables, with
\* every result of git config
AllEnvironments ==
    { <<Environment(l, v, e), g>> :
        l \in {None, Some(<<>>), Some(<<"l">>)},
        v \in {None, Some(<<>>), Some(<<"v">>)},
        e \in {None, Some(<<>>), Some(<<"e">>)},
        g \in GitConfigResults }

\* the environments of a git-commit run: no editor at all, an empty EDITOR,
\* an editor from git config, an editor from EDITOR
CommitEnvironments ==
    { <<NoEnvironment, Completed(1, <<>>)>>,
      <<Environment(None, None, Some(<<>>)), FileNotFoundError>>,
      <<NoEnvironment, Completed(0, <<"g","\n">>)>>,
      <<Environment(None, None, Some(<<"e">>)), Completed(1, <<>>)>> }

\* results of 'git diff'
DiffResults ==
    { CalledProcessError, FileNotFoundError,
      Completed(0, <<>>), Completed(0, <<"\n">>), Completed(0, <<"d">>) }

\* results of 'git add', 'git commit' and 'git push'
GitResults == { Completed(0, <<>>), CalledProcessError, FileNotFoundError }

\* results of resolving the model (lines 458-481)
ModelResults == { "ok", "no model", "UnknownModelError", "no key" }

\* what the model call of line 500 does: a text, or Exception
GenerateResults ==
    { ExceptionEvent(<<"e">>), ReplyEvent(<<>>), ReplyEvent(<<" ","\n">>),
      ReplyEvent(<<" ","m","\n">>) }

\* answers to click.confirm
ClickAnswers == { <<>>, <<"y">>, <<"N","o">> }

\* what the built-in editor hands back: the text submitted, or Ctrl+C / Ctrl+D
InternalEdits(suggestion) ==
    { TextEvent(suggestion), TextEvent(<<>>), TextEvent(<<" ","\n">>),
      TextEvent(<<"e">>), KeyboardInterrupt, EOFError }

\* what the external editor does with the temporary file: the process cannot
\* be started, it exits with a code and leaves a content
EditorExits(content) ==
    { FileNotFoundError, Completed(1, content), Completed(0, content),
      Completed(0, <<"x"," ","\n">> \o help_text),
      Completed(0, <<"#","a","\n"," ","\n">>), Completed(0, <<>>) }

(***************************************************************************)
(* State of one refinement session: the locals of _chat_for_refinement.    *)
(***************************************************************************)
VARIABLES
    pc,                             \* where the coroutine is suspended, or how it ended
    initial_commit_draft,           \* parameter: the seed draft
    original_diff,                  \* parameter
    message_being_refined_in_chat,  \* the current working draft
    chat_history,                   \* list of {role, content}
    last_marker_proposal_text,
    user_input_from_prompt,
    cleaned_user_query,
    final_message_to_apply,
    messages_for_llm,               \* context of the latest model call
    llm_full_response_text,
    extracted_proposal_text,
    conversational_parts_to_print,
    conversational_text_for_history_if_proposal_rejected,
    returned,                       \* the value returned, None while running
    raised,                         \* the exception that left the coroutine
    echo,                           \* the latest status line printed
    event,                          \* what the environment did at the latest suspension
    chat_turns                      \* chat queries so far

vars == <<pc, initial_commit_draft, original_diff, message_being_refined_in_chat,
          chat_history, last_marker_proposal_text, user_input_from_prompt,
          cleaned_user_query, final_message_to_apply, messages_for_llm,
          llm_full_response_text, extracted_proposal_text,
          conversational_parts_to_print,
          conversational_text_for_history_if_proposal_rejected,
          returned, raised, echo, event, chat_turns>>

params == <<initial_commit_draft, original_diff>>

(***************************************************************************)
(* State of one run of the command line: the parameters and locals of      *)
(* git_commit_command and config_command and what they leave outside.      *)
(***************************************************************************)
VARIABLES
    cmd_pc,                  \* where the command is, or "Returned" / "Raised"
    use_external_flag,       \* resolve_editor: the parameter, False at its call
    buffer,                  \* the text in the built-in editor, None if it is not open
    yes,                     \* -y/--yes
    editor_override,         \* -e/--editor: None, "env" (flag alone) or its value
    prompt_style,            \* -p/--prompt-style
    system_prompt_override,  \* -s/--system
    diff_mode,               \* "staged" or "tracked"
    config,                  \* load_config(): the keys editor, prompt, prompt-style
    prompt_files,            \* get_prompt_content: the prompt a style name has
    environ,                 \* os.environ as get_editor_from_env read it
    git_config,              \* what 'git config core.editor' did
    env_editor,              \* what get_editor_from_env returned
    diff_output,
    system_prompt,
    generated_message,
    editor_mode,
    editor_cmd,
    temp_file,               \* the temporary file of the external editor, None if absent
    final_message,
    commit_calls,            \* the messages _execute_git_commit was called with
    subprocess_log,          \* the processes started, in order
    confirm_log,             \* the confirmations asked and their results, in order
    cmd_event,               \* the latest result of a collaborator or prompt
    cmd_raised,              \* the exception that left the command
    cmd_echo                 \* the latest message printed

\* the options and files a run starts with
cmd_inputs == <<use_external_flag, yes, editor_override, prompt_style, system_prompt_override,
                diff_mode, config, prompt_files>>

\* what get_editor_from_env read and returned
env_vars == <<environ, git_config, env_editor>>

command_vars == <<cmd_pc, buffer, cmd_inputs, env_vars, diff_output, system_prompt,
                  generated_message, editor_mode, editor_cmd, temp_file,
                  final_message, commit_calls, subprocess_log, confirm_log,
                  cmd_event, cmd_raised, cmd_echo>>

\* the command started from the built-in editor of which a session runs:
\* 'llm git-commit' without options, the diff and the suggestion at hand, the
\* editor waiting in the Ctrl+I handler (line 816) for the session to return
InInternalEditor ==
    /\ cmd_pc = "ChatRefine"
    /\ use_external_flag = FALSE
    /\ buffer = Some(initial_commit_draft)
    /\ yes = FALSE
    /\ editor_override = None
    /\ prompt_style = None
    /\ system_prompt_override = None
    /\ diff_mode = "staged"
    /\ config = NoConfig
    /\ prompt_files = InstalledPrompts
    /\ environ = NoEnvironment
    /\ git_config = NotRun
    /\ env_editor = None
    /\ diff_output = Some(original_diff)
    /\ system_prompt = Some(<<"P">>)
    /\ generated_message = Strip(initial_commit_draft)
    /\ editor_mode = InternalMode
    /\ editor_cmd = None
    /\ temp_file = None
    /\ final_message = None
    /\ commit_calls = <<>>
    /\ subprocess_log = <<"git diff">>
    /\ confirm_log = <<>>
    /\ cmd_event = ReplyEvent(initial_commit_draft)
    /\ cmd_raised = "none"
    /\ cmd_echo = "Suggested commit message (edit below):"

\* locals of the chat branch, untouched outside it
turn_locals == <<messages_for_llm, llm_full_response_text, extracted_proposal_text,
                 conversational_parts_to_print,
                 conversational_text_for_history_if_proposal_rejected>>

User(content) == [role |-> "user", content |-> content]
Assistant(content) == [role |-> "assistant", content |-> content]
System(content) == [role |-> "system", content |-> content]

\* get_current_chat_system_prompt filling in the seed draft
get_seed_chat_system_prompt ==
    CHAT_REFINEMENT_SYSTEM_PROMPT_TEMPLATE(original_diff, initial_commit_draft)

\* lines 938-943: the closure reads the draft that is current when it is called
get_current_chat_system_prompt ==
    CHAT_REFINEMENT_SYSTEM_PROMPT_TEMPLATE(original_diff, message_being_refined_in_chat)

\* MessagesForLLM sending the latest entry of the history only
MessagesForLLMLatest(system_content, history) ==
    <<System(system_content)>> \o SubSeq(history, Len(history), Len(history))

\* line 1028: the context of a model call
MessagesForLLM(system_content, history) == <<System(system_content)>> \o history

\* lines 925-963: the state when the loop is first entered
Init ==
    /\ pc = "Prompting"
    /\ initial_commit_draft \in Seeds
    /\ original_diff \in Diffs
    /\ message_being_refined_in_chat = initial_commit_draft
    /\ chat_history = <<>>
    /\ last_marker_proposal_text = None
    /\ user_input_from_prompt = <<>>
    /\ cleaned_user_query = <<>>
    /\ final_message_to_apply = <<>>
    /\ messages_for_llm = <<>>
    /\ llm_full_response_text = <<>>
    /\ extracted_proposal_text = None
    /\ conversational_parts_to_print = <<>>
    /\ conversational_text_for_history_if_proposal_rejected = <<>>
    /\ returned = None
    /\ raised = "none"
    /\ echo = "--- Chat Session Started ---"
    /\ event = NoEvent
    /\ chat_turns = 0
    /\ InInternalEditor

(***************************************************************************)
(* The query prompt: lines 965-1028.                                       *)
(***************************************************************************)
\* PromptResult handing back the buffer when Ctrl+A is pressed
PromptResultBuffer(ev) ==
    IF ev.kind \in {"text", "ctrl_a"} THEN ev.text ELSE CancelCommand

\* lines 971-979: what the query prompt hands back for an event
PromptResult(ev) ==
    IF ev.kind = "text" THEN ev.text
    ELSE IF ev.kind = "ctrl_a" THEN ApplyCommand   \* line 950: exit(result="/apply")
    ELSE CancelCommand                             \* lines 976-977

\* CleanQuery without the default for empty input
CleanQueryNoDefault(input) == Strip(input)

\* lines 981-984
CleanQuery(input) ==
    IF Strip(input) = <<>> /\ input # ApplyCommand THEN CancelCommand ELSE Strip(input)

IsCancel(ev) == ToLower(CleanQuery(PromptResult(ev))) = CancelCommand   \* line 990

\* IsApply comparing the case as typed
IsApplyExact(ev) ==
    /\ ~IsCancel(ev)
    /\ CleanQuery(PromptResult(ev)) = ApplyCommand

IsApply(ev) ==
    /\ ~IsCancel(ev)
    /\ ToLower(CleanQuery(PromptResult(ev))) = ApplyCommand             \* line 994

\* CancelResult returning the working draft
CancelResultCurrent(seed, current) == current

\* line 992: the value returned on /cancel
CancelResult(seed, current) == seed

\* DraftIsEmpty without the strip
DraftIsEmptyNoStrip(draft) == draft = <<>>

\* line 1000: the draft cannot be applied
DraftIsEmpty(draft) == Strip(draft) = <<>>

\* lines 1016 and 1107: the answer to a (Y/n) prompt counts as yes
IsYes(answer) == ToLower(Strip(answer)) = <<"y">> \/ Strip(answer) = <<>>

ReadQuery(ev) ==
    /\ user_input_from_prompt' = PromptResult(ev)
    /\ cleaned_user_query' = CleanQuery(PromptResult(ev))
    /\ event' = ev

\* lines 990-992
Cancel(ev) ==
    /\ UNCHANGED command_vars
    /\ pc = "Prompting"
    /\ IsCancel(ev)
    /\ ReadQuery(ev)
    /\ pc' = "Cancelled"
    /\ returned' = Some(CancelResult(initial_commit_draft, message_being_refined_in_chat))
    /\ echo' = "Chat cancelled. Returning original draft."
    /\ UNCHANGED <<params, message_being_refined_in_chat, chat_history,
                   last_marker_proposal_text, final_message_to_apply, turn_locals,
                   raised, chat_turns>>

\* lines 994-1003: /apply with a blank draft
ApplyEmptyDraft(ev) ==
    /\ UNCHANGED command_vars
    /\ pc = "Prompting"
    /\ IsApply(ev)
    /\ DraftIsEmpty(message_being_refined_in_chat)
    /\ ReadQuery(ev)
    /\ last_marker_proposal_text' = None
    /\ final_message_to_apply' = message_being_refined_in_chat
    /\ echo' = "Current draft is empty. Cannot apply."
    /\ pc' = "Prompting"
    /\ UNCHANGED <<params, message_being_refined_in_chat, chat_history, turn_locals,
                   returned, raised, chat_turns>>

\* lines 994-1014: /apply with a draft, up to the confirmation prompt
ApplyAsk(ev) ==
    /\ UNCHANGED command_vars
    /\ pc = "Prompting"
    /\ IsApply(ev)
    /\ ~DraftIsEmpty(message_being_refined_in_chat)
    /\ ReadQuery(ev)
    /\ last_marker_proposal_text' = None
    /\ final_message_to_apply' = message_being_refined_in_chat
    /\ echo' = "This is the current draft that will be applied:"
    /\ pc' = "ApplyConfirm"
    /\ UNCHANGED <<params, message_being_refined_in_chat, chat_history, turn_locals,
                   returned, raised, chat_turns>>

\* lines 1026-1037: a chat query, up to the model call
ChatQuery(ev) ==
    /\ UNCHANGED command_vars
    /\ pc = "Prompting"
    /\ ~IsCancel(ev)
    /\ ~IsApply(ev)
    /\ chat_turns < MaxTurns
    /\ ReadQuery(ev)
    /\ chat_history' = Append(chat_history, User(CleanQuery(PromptResult(ev))))
    /\ messages_for_llm' = MessagesForLLM(get_current_chat_system_prompt, chat_history')
    /\ extracted_proposal_text' = None
    /\ llm_full_response_text' = <<>>
    /\ conversational_parts_to_print' = <<>>
    /\ conversational_text_for_history_if_proposal_rejected' = <<>>
    /\ echo' = "LLM thinking..."
    /\ pc' = "ChatPending"
    /\ chat_turns' = chat_turns + 1
    /\ UNCHANGED <<params, message_being_refined_in_chat, last_marker_proposal_text,
                   final_message_to_apply, returned, raised>>

(***************************************************************************)
(* The apply confirmation: lines 1010-1023.                                *)
(***************************************************************************)
\* ApplyResult returning the seed
ApplyResultSeed(seed, final) == seed

\* line 1018: the value returned on a confirmed /apply
ApplyResult(seed, final) == final

\* lines 1016-1018
ApplyConfirmed(ev) ==
    /\ UNCHANGED command_vars
    /\ pc = "ApplyConfirm"
    /\ ev.kind = "text"
    /\ IsYes(ev.text)
    /\ event' = ev
    /\ pc' = "Applied"
    /\ returned' = Some(ApplyResult(initial_commit_draft, final_message_to_apply))
    /\ echo' = "--- Current draft confirmed. Returning to editor. ---"
    /\ UNCHANGED <<params, message_being_refined_in_chat, chat_history,
                   last_marker_proposal_text, user_input_from_prompt,
                   cleaned_user_query, final_message_to_apply, turn_locals,
                   raised, chat_turns>>

\* lines 1019-1023
ApplyDeclined(ev) ==
    /\ UNCHANGED command_vars
    /\ pc = "ApplyConfirm"
    /\ ev.kind = "text"
    /\ ~IsYes(ev.text)
    /\ event' = ev
    /\ pc' = "Prompting"
    /\ echo' = "/apply action discarded by user. Continuing chat."
    /\ UNCHANGED <<params, message_being_refined_in_chat, chat_history,
                   last_marker_proposal_text, user_input_from_prompt,
                   cleaned_user_query, final_message_to_apply, turn_locals,
                   returned, raised, chat_turns>>

\* lines 1012-1014: prompt_async() is awaited outside any try block, so the
\* KeyboardInterrupt or EOFError it raises leaves _chat_for_refinement
ApplyConfirmRaises(ev) ==
    /\ UNCHANGED command_vars
    /\ pc = "ApplyConfirm"
    /\ ev.kind \in {"KeyboardInterrupt", "EOFError"}
    /\ event' = ev
    /\ pc' = "Raised"
    /\ raised' = ev.kind
    /\ UNCHANGED <<params, message_being_refined_in_chat, chat_history,
                   last_marker_proposal_text, user_input_from_prompt,
                   cleaned_user_query, final_message_to_apply, turn_locals,
                   returned, echo, chat_turns>>

(***************************************************************************)
(* The model call and what follows it: lines 1036-1126.                    *)
(***************************************************************************)
\* AppendAssistant recording only non-empty responses
AppendAssistantNonEmpty(history, assistant_response_for_history, full_text) ==
    IF assistant_response_for_history # <<>> /\ Strip(full_text) # <<>>
    THEN Append(history, Assistant(assistant_response_for_history))
    ELSE history

\* lines 1124-1126: the assistant turn is recorded unless it is empty while
\* the reply was not
AppendAssistant(history, assistant_response_for_history, full_text) ==
    IF assistant_response_for_history # <<>> \/ Strip(full_text) = <<>>
    THEN Append(history, Assistant(assistant_response_for_history))
    ELSE history

\* line 1087
ErrorNote(msg) == LLMErrorPrefix \o msg \o <<")">>

\* lines 1038-1083, then 1094-1105 (a proposal: ask) or 1120-1128 (none: record
\* the turn and prompt again)
ModelReturns(replies) ==
    /\ UNCHANGED command_vars
    /\ pc = "ChatPending"
    /\ \E reply \in replies :
        LET parsed == ParseReply(reply, last_marker_proposal_text) IN
        /\ event' = ReplyEvent(reply)
        /\ llm_full_response_text' = reply
        /\ extracted_proposal_text' = parsed.extracted_proposal_text
        /\ conversational_parts_to_print' = parsed.conversational_parts_to_print
        /\ conversational_text_for_history_if_proposal_rejected' =
               parsed.conversational_text
        /\ last_marker_proposal_text' = parsed.last_marker_proposal_text
        /\ IF parsed.extracted_proposal_text # None
           THEN /\ pc' = "ProposalConfirm"
                /\ echo' = "LLM Proposes Update to Draft:"
                /\ UNCHANGED chat_history
           ELSE /\ pc' = "Prompting"
                /\ echo' = parsed.echo
                /\ chat_history' =
                       AppendAssistant(chat_history, parsed.conversational_text, reply)
    /\ UNCHANGED <<params, message_being_refined_in_chat, user_input_from_prompt,
                   cleaned_user_query, final_message_to_apply, messages_for_llm,
                   returned, raised, chat_turns>>

\* lines 1085-1089, then 1120-1128: the call raised an Exception
ModelFails(msg) ==
    /\ UNCHANGED command_vars
    /\ pc = "ChatPending"
    /\ event' = ExceptionEvent(msg)
    /\ conversational_text_for_history_if_proposal_rejected' = ErrorNote(msg)
    /\ extracted_proposal_text' = None
    /\ last_marker_proposal_text' = None
    /\ echo' = "LLM Error"
    /\ chat_history' = AppendAssistant(chat_history, ErrorNote(msg), llm_full_response_text)
    /\ pc' = "Prompting"
    /\ UNCHANGED <<params, message_being_refined_in_chat, user_input_from_prompt,
                   cleaned_user_query, final_message_to_apply, messages_for_llm,
                   llm_full_response_text, conversational_parts_to_print,
                   returned, raised, chat_turns>>

\* line 1085 catches Exception only: a KeyboardInterrupt during the call is a
\* BaseException and leaves _chat_for_refinement
ModelInterrupted ==
    /\ UNCHANGED command_vars
    /\ pc = "ChatPending"
    /\ event' = KeyboardInterrupt
    /\ pc' = "Raised"
    /\ raised' = "KeyboardInterrupt"
    /\ UNCHANGED <<params, message_being_refined_in_chat, chat_history,
                   last_marker_proposal_text, user_input_from_prompt,
                   cleaned_user_query, final_message_to_apply, turn_locals,
                   returned, echo, chat_turns>>

(***************************************************************************)
(* The proposal confirmation: lines 1101-1128.                             *)
(***************************************************************************)
\* DraftAfterAnswer taking the proposal whatever the answer
DraftAfterAnswerAlways(accepted, current, proposal) == proposal

\* DraftAfterAnswer taking the proposal on a no
DraftAfterAnswerSwapped(accepted, current, proposal) ==
    IF accepted THEN current ELSE proposal

\* lines 1107-1113: the current draft after the answer
DraftAfterAnswer(accepted, current, proposal) ==
    IF accepted THEN proposal ELSE current

\* RejectedResponse without the placeholder
RejectedResponseRaw(conversational_text) == conversational_text

\* lines 1114-1117
RejectedResponse(conversational_text) ==
    IF conversational_text # <<>> THEN conversational_text ELSE RejectedNote

\* lines 1107-1111, 1118, 1124-1128
ProposalAccepted(ev) ==
    /\ UNCHANGED command_vars
    /\ pc = "ProposalConfirm"
    /\ ev.kind = "text"
    /\ IsYes(ev.text)
    /\ event' = ev
    /\ message_being_refined_in_chat' =
           DraftAfterAnswer(TRUE, message_being_refined_in_chat, extracted_proposal_text[1])
    /\ echo' = "Proposal accepted. Current draft updated."
    /\ chat_history' =
           AppendAssistant(Append(chat_history, User(AcceptedNote)),
                           message_being_refined_in_chat', llm_full_response_text)
    /\ last_marker_proposal_text' = None
    /\ pc' = "Prompting"
    /\ UNCHANGED <<params, user_input_from_prompt, cleaned_user_query,
                   final_message_to_apply, turn_locals, returned, raised, chat_turns>>

\* lines 1112-1118, 1124-1128
ProposalRejected(ev) ==
    /\ UNCHANGED command_vars
    /\ pc = "ProposalConfirm"
    /\ ev.kind = "text"
    /\ ~IsYes(ev.text)
    /\ event' = ev
    /\ message_being_refined_in_chat' =
           DraftAfterAnswer(FALSE, message_being_refined_in_chat, extracted_proposal_text[1])
    /\ echo' = "Proposal rejected. Current draft remains unchanged."
    /\ chat_history' =
           AppendAssistant(chat_history,
               RejectedResponse(conversational_text_for_history_if_proposal_rejected),
               llm_full_response_text)
    /\ last_marker_proposal_text' = None
    /\ pc' = "Prompting"
    /\ UNCHANGED <<params, user_input_from_prompt, cleaned_user_query,
                   final_message_to_apply, turn_locals, returned, raised, chat_turns>>

\* lines 1103-1105: prompt_async() is awaited outside any try block
ProposalConfirmRaises(ev) ==
    /\ UNCHANGED command_vars
    /\ pc = "ProposalConfirm"
    /\ ev.kind \in {"KeyboardInterrupt", "EOFError"}
    /\ event' = ev
    /\ pc' = "Raised"
    /\ raised' = ev.kind
    /\ UNCHANGED <<params, message_being_refined_in_chat, chat_history,
                   last_marker_proposal_text, user_input_from_prompt,
                   cleaned_user_query, final_message_to_apply, turn_locals,
                   returned, echo, chat_turns>>

(***************************************************************************)
(* Specifications.                                                         *)
(***************************************************************************)
QueryStep ==
    \/ \E ev \in QueryEvents : Cancel(ev)
    \/ \E ev \in QueryEvents : ApplyEmptyDraft(ev)
    \/ \E ev \in QueryEvents : ApplyAsk(ev)
    \/ \E ev \in QueryEvents : ChatQuery(ev)

ConfirmStep ==
    \/ \E ev \in ConfirmEvents : ApplyConfirmed(ev)
    \/ \E ev \in ConfirmEvents : ApplyDeclined(ev)
    \/ \E ev \in ConfirmEvents : ApplyConfirmRaises(ev)
    \/ \E ev \in ConfirmEvents : ProposalAccepted(ev)
    \/ \E ev \in ConfirmEvents : ProposalRejected(ev)
    \/ \E ev \in ConfirmEvents : ProposalConfirmRaises(ev)

Next ==
    \/ QueryStep
    \/ ConfirmStep
    \/ ModelReturns(SessionReplies)
    \/ \E msg \in ErrorMessages : ModelFails(msg)
    \/ ModelInterrupted

\* a refinement session, the model answering with the replies of SessionReplies
Spec == Init /\ [][Next]_vars

\* The model call of a chat turn on every reply of AllReplies: from the session
\* right after its first chat query (the state ChatQuery leaves) to the next
\* suspension point, the proposal confirmation or the query prompt.
InitParse ==
    /\ pc = "ChatPending"
    /\ initial_commit_draft \in ParseSeeds
    /\ original_diff \in Diffs
    /\ message_being_refined_in_chat = initial_commit_draft
    /\ chat_history = <<User(<<"b">>)>>
    /\ last_marker_proposal_text = None
    /\ user_input_from_prompt = <<" ","b"," ">>
    /\ cleaned_user_query = <<"b">>
    /\ final_message_to_apply = <<>>
    /\ messages_for_llm = MessagesForLLM(get_current_chat_system_prompt, chat_history)
    /\ llm_full_response_text = <<>>
    /\ extracted_proposal_text = None
    /\ conversational_parts_to_print = <<>>
    /\ conversational_text_for_history_if_proposal_rejected = <<>>
    /\ returned = None
    /\ raised = "none"
    /\ echo = "LLM thinking..."
    /\ event = TextEvent(<<" ","b"," ">>)
    /\ chat_turns = 1
    /\ InInternalEditor

NextParse == ModelReturns(AllReplies)

SpecParse == InitParse /\ [][NextParse]_vars

(***************************************************************************)
(* The command line: git_commit_command (lines 395-559) with               *)
(* _execute_git_commit (lines 851-903), and config_command (573-713).      *)
(* One action per call of a collaborator or prompt.                        *)
(***************************************************************************)
\* no refinement session is open
NoSession ==
    /\ pc = "NotEntered"
    /\ initial_commit_draft = <<>>
    /\ original_diff = <<>>
    /\ message_being_refined_in_chat = <<>>
    /\ chat_history = <<>>
    /\ last_marker_proposal_text = None
    /\ user_input_from_prompt = <<>>
    /\ cleaned_user_query = <<>>
    /\ final_message_to_apply = <<>>
    /\ messages_for_llm = <<>>
    /\ llm_full_response_text = <<>>
    /\ extracted_proposal_text = None
    /\ conversational_parts_to_print = <<>>
    /\ conversational_text_for_history_if_proposal_rejected = <<>>
    /\ returned = None
    /\ raised = "none"
    /\ echo = ""
    /\ event = NoEvent
    /\ chat_turns = 0

\* the locals of a command that has not done anything yet
NothingDone ==
    /\ buffer = None
    /\ environ = NoEnvironment
    /\ git_config = NotRun
    /\ env_editor = None
    /\ diff_output = None
    /\ system_prompt = None
    /\ generated_message = <<>>
    /\ editor_mode = <<>>
    /\ editor_cmd = None
    /\ temp_file = None
    /\ final_message = None
    /\ commit_calls = <<>>
    /\ subprocess_log = <<>>
    /\ confirm_log = <<>>
    /\ cmd_event = NoEvent
    /\ cmd_raised = "none"
    /\ cmd_echo = ""

\* lines 395-408: 'llm git-commit' with its options, or 'llm git-commit config'
InitCommand ==
    /\ NoSession
    /\ NothingDone
    /\ use_external_flag = FALSE
    /\ \E line \in CommandLines :
        /\ yes = line.yes
        /\ editor_override = line.editor_override
        /\ prompt_style = line.prompt_style
        /\ system_prompt_override = line.system_prompt_override
        /\ diff_mode = line.diff_mode
    /\ config \in Configs
    /\ prompt_files = InstalledPrompts
    /\ cmd_pc \in {"git-commit", "config"}
    /\ cmd_pc = "config" =>
          /\ yes = FALSE
          /\ editor_override = None
          /\ diff_mode = "staged"

\* a confirmation asked with click.confirm, the answer and what it came to
Confirmation(prompt, answer, default) ==
    [prompt |-> prompt, answer |-> answer, result |-> ClickConfirm(answer, default)]

\* the command returns after printing a message
Return(message) ==
    /\ cmd_pc' = "Returned"
    /\ cmd_echo' = message

\* lines 428-433, 457: the diff is there, on to the model
DiffReady(result) ==
    result.kind = "completed" /\ Strip(result.stdout) # <<>>

\* lines 422-455: the diff is retrieved
GetDiff(result) ==
    /\ cmd_pc = "git-commit"
    /\ cmd_event' = result
    /\ subprocess_log' = Append(subprocess_log, "git diff")
    /\ IF result.kind # "completed"
       THEN /\ Return("Error getting git diff")
            /\ UNCHANGED diff_output
       ELSE IF DiffReady(result)
       THEN /\ cmd_pc' = "PrepareModel"
            /\ cmd_echo' = ""
            /\ diff_output' = Some(result.stdout)
       ELSE IF diff_mode = "staged"
       THEN /\ cmd_pc' = "StageConfirm"
            /\ cmd_echo' = "No staged changes found."
            /\ diff_output' = Some(result.stdout)
       ELSE /\ Return("No unstaged changes in tracked files to commit.")
            /\ diff_output' = Some(result.stdout)
    /\ UNCHANGED <<vars, buffer, cmd_inputs, env_vars, system_prompt, generated_message,
                   editor_mode, editor_cmd, temp_file, final_message, commit_calls,
                   confirm_log, cmd_raised>>

\* lines 437-451: 'stage all changes and commit?', git add, the diff again
StageAll(answer, add_result, diff_result) ==
    /\ cmd_pc = "StageConfirm"
    /\ confirm_log' = Append(confirm_log, Confirmation("stage all", answer, TRUE))
    /\ IF ~ClickConfirm(answer, TRUE)
       THEN /\ Return("Commit aborted.")
            /\ cmd_event' = TextEvent(answer)
            /\ UNCHANGED <<diff_output, subprocess_log>>
       ELSE IF add_result.kind # "completed"
       THEN /\ Return("Error staging changes")
            /\ cmd_event' = add_result
            /\ subprocess_log' = Append(subprocess_log, "git add")
            /\ UNCHANGED diff_output
       ELSE /\ cmd_event' = diff_result
            /\ subprocess_log' = subprocess_log \o <<"git add", "git diff">>
            /\ IF DiffReady(diff_result)
               THEN /\ cmd_pc' = "PrepareModel"
                    /\ cmd_echo' = "Changes staged."
                    /\ diff_output' = Some(diff_result.stdout)
               ELSE /\ Return("No changes to commit even after staging.")
                    /\ diff_output' = IF diff_result.kind = "completed"
                                      THEN Some(diff_result.stdout) ELSE None
    /\ UNCHANGED <<vars, buffer, cmd_inputs, env_vars, system_prompt, generated_message,
                   editor_mode, editor_cmd, temp_file, final_message, commit_calls,
                   cmd_raised>>

\* lines 458-497: the model is resolved and the system prompt chosen
PrepareModel(model_result) ==
    /\ cmd_pc = "PrepareModel"
    /\ LET chosen == get_system_prompt(config, prompt_style,
                                       system_prompt_override, prompt_files)
       IN IF model_result # "ok"
          THEN /\ Return("Error: no usable model")
               /\ cmd_event' = [kind |-> model_result, text |-> <<>>]
               /\ UNCHANGED system_prompt
          ELSE IF chosen.kind = "ValueError"
          THEN /\ Return("Error: prompt style not found")
               /\ cmd_event' = chosen
               /\ UNCHANGED system_prompt
          ELSE /\ cmd_pc' = "Generating"
               /\ cmd_echo' = "Generating commit message"
               /\ cmd_event' = chosen
               /\ system_prompt' = Some(chosen.text)
    /\ UNCHANGED <<vars, buffer, cmd_inputs, env_vars, diff_output, generated_message,
                   editor_mode, editor_cmd, temp_file, final_message, commit_calls,
                   subprocess_log, confirm_log, cmd_raised>>

\* lines 499-522: the model is asked for the message
Generate(result) ==
    /\ cmd_pc = "Generating"
    /\ cmd_event' = result
    /\ IF result.kind = "Exception"
       THEN /\ Return("Error calling LLM")
            /\ UNCHANGED generated_message
       ELSE /\ cmd_pc' = "Generated"
            /\ generated_message' = Strip(result.text)
            /\ cmd_echo' = IF Strip(result.text) = <<>>
                           THEN "LLM returned an empty commit message."
                           ELSE "Generating commit message"
    /\ UNCHANGED <<vars, buffer, cmd_inputs, env_vars, diff_output, system_prompt,
                   editor_mode, editor_cmd, temp_file, final_message, commit_calls,
                   subprocess_log, confirm_log, cmd_raised>>

\* lines 555-559 and 851-866: the final message is refused, or handed to
\* _execute_git_commit, which shows it and asks 'Proceed?'
Finish(message) ==
    /\ final_message' = message
    /\ IF MayCommit(message)
       THEN /\ cmd_pc' = "ProceedConfirm"
            /\ commit_calls' = Append(commit_calls, message[1])
            /\ cmd_echo' = "Committing with message:"
       ELSE /\ Return("Commit aborted.")
            /\ UNCHANGED commit_calls

\* lines 525-531, then 555-559: --yes takes the generated message as it is
UseDirectly ==
    /\ cmd_pc = "Generated"
    /\ yes
    /\ IF generated_message = <<>>
       THEN /\ Return("LLM returned an empty message and --yes was used. Aborting commit.")
            /\ UNCHANGED <<final_message, commit_calls>>
       ELSE Finish(Some(generated_message))
    /\ UNCHANGED <<vars, buffer, cmd_inputs, env_vars, diff_output, system_prompt,
                   generated_message, editor_mode, editor_cmd, temp_file,
                   subprocess_log, confirm_log, cmd_event, cmd_raised>>

\* lines 533-553 and 242-246: the editor is chosen and opened
SelectEditor(env, git) ==
    /\ cmd_pc = "Generated"
    /\ ~yes
    /\ IF ReadsEnvironment(editor_override, config)
       THEN git # NotRun
       ELSE env = NoEnvironment /\ git = NotRun
    /\ LET selected == SelectedEditor(editor_override, config, env, git) IN
        /\ environ' = env
        /\ git_config' = git
        /\ env_editor' = IF ReadsEnvironment(editor_override, config)
                         THEN get_editor_from_env(env, git) ELSE None
        /\ editor_mode' = selected[1]
        /\ editor_cmd' = selected[2]
        /\ IF UsesInternalEditor(selected[1], selected[2])
           THEN /\ cmd_pc' = "InternalEditor"
                /\ cmd_echo' = IF selected[1] = InternalMode
                               THEN "Suggested commit message (edit below):"
                               ELSE "Warning: No external editor found in environment. Using built-in editor."
                /\ buffer' = Some(generated_message)      \* line 846: default=suggestion
                /\ UNCHANGED temp_file
           ELSE /\ cmd_pc' = "ExternalEditor"
                /\ cmd_echo' = "Opening editor to edit commit message..."
                /\ temp_file' = Some(TempFileContent(generated_message))
                /\ UNCHANGED buffer
    /\ UNCHANGED <<vars, cmd_inputs, diff_output, system_prompt, generated_message,
                   final_message, commit_calls, subprocess_log, confirm_log,
                   cmd_event, cmd_raised>>

\* lines 546 and 553 (_interactive_edit_message, lines 779-849), then 555-559:
\* the built-in editor returns the text, or Ctrl+C / Ctrl+D raises out of it
InternalEdit ==
    /\ cmd_pc = "InternalEditor"
    /\ buffer' = None
    /\ \E ev \in InternalEdits(buffer[1]) :
        /\ cmd_event' = ev
        /\ IF ev.kind = "text"
           THEN /\ Finish(Some(ev.text))
                /\ UNCHANGED cmd_raised
           ELSE /\ cmd_pc' = "Raised"
                /\ cmd_raised' = ev.kind
                /\ UNCHANGED <<final_message, commit_calls, cmd_echo>>
    /\ UNCHANGED <<vars, cmd_inputs, env_vars, diff_output, system_prompt,
                   generated_message, editor_mode, editor_cmd, temp_file,
                   subprocess_log, confirm_log>>

\* BufferAfterChat leaving the buffer as it was
BufferAfterChatKept(current_text_in_editor_buffer, refined_message_from_chat) ==
    current_text_in_editor_buffer

\* lines 829-833: the buffer takes the text the session returned
BufferAfterChat(current_text_in_editor_buffer, refined_message_from_chat) ==
    IF refined_message_from_chat # None
           /\ refined_message_from_chat[1] # current_text_in_editor_buffer
    THEN refined_message_from_chat[1]
    ELSE current_text_in_editor_buffer

\* lines 816-835 of _handle_chat_refine: the session has returned, the
\* handler updates the buffer and the editor is at its prompt again
ChatRefineReturns ==
    /\ cmd_pc = "ChatRefine"
    /\ pc \in {"Cancelled", "Applied"}
    /\ buffer' = Some(BufferAfterChat(buffer[1], returned))
    /\ cmd_pc' = "InternalEditor"
    /\ cmd_echo' = "<== Exiting Chat Mode..."
    /\ UNCHANGED <<vars, cmd_inputs, env_vars, diff_output, system_prompt,
                   generated_message, editor_mode, editor_cmd, temp_file,
                   final_message, commit_calls, subprocess_log, confirm_log,
                   cmd_event, cmd_raised>>

\* lines 248-269 of edit_with_external_editor, then 555-559: the editor
\* process is run on the temporary file
ExternalEdit ==
    /\ cmd_pc = "ExternalEditor"
    /\ subprocess_log' = Append(subprocess_log, "editor")
    /\ temp_file' = Unlinked(temp_file)
    /\ \E result \in EditorExits(temp_file[1]) :
        /\ cmd_event' = result
        /\ IF result.kind = "FileNotFoundError"
           THEN \* subprocess.run raises; nothing catches it up to the command
                /\ cmd_pc' = "Raised"
                /\ cmd_raised' = "FileNotFoundError"
                /\ UNCHANGED <<final_message, commit_calls, cmd_echo>>
           ELSE /\ UNCHANGED cmd_raised
                /\ IF result.returncode # 0
                   THEN Finish(None)
                   ELSE Finish(EditedText(result.stdout))
    /\ UNCHANGED <<vars, buffer, cmd_inputs, env_vars, diff_output, system_prompt,
                   generated_message, editor_mode, editor_cmd, confirm_log>>

\* CommitSucceeded not looking at the result
CommitSucceededAlways(result) == TRUE

\* lines 870-875, 898-903: subprocess.run(check=True) returned, no
\* CalledProcessError or FileNotFoundError was raised
CommitSucceeded(result) == result.kind = "completed"

\* lines 866-881 and 898-903: 'Proceed?', then git commit
Proceed(answer, result) ==
    /\ cmd_pc = "ProceedConfirm"
    /\ confirm_log' = Append(confirm_log, Confirmation("Proceed?", answer, TRUE))
    /\ IF ~ClickConfirm(answer, TRUE)
       THEN /\ Return("Commit aborted by user.")
            /\ cmd_event' = TextEvent(answer)
            /\ UNCHANGED subprocess_log
       ELSE /\ cmd_event' = result
            /\ subprocess_log' = Append(subprocess_log, "git commit")
            /\ IF CommitSucceeded(result)
               THEN /\ cmd_pc' = "PushConfirm"
                    /\ cmd_echo' = "Commit successful!"
               ELSE Return("Error during git commit")
    /\ UNCHANGED <<vars, buffer, cmd_inputs, env_vars, diff_output, system_prompt,
                   generated_message, editor_mode, editor_cmd, temp_file,
                   final_message, commit_calls, cmd_raised>>

\* lines 883-897: 'push the changes?', then git push
Push(answer, result) ==
    /\ cmd_pc = "PushConfirm"
    /\ confirm_log' = Append(confirm_log, Confirmation("push", answer, FALSE))
    /\ IF ~ClickConfirm(answer, FALSE)
       THEN /\ Return("Commit successful!")
            /\ cmd_event' = TextEvent(answer)
            /\ UNCHANGED subprocess_log
       ELSE /\ cmd_event' = result
            /\ subprocess_log' = Append(subprocess_log, "git push")
            /\ IF result.kind = "completed"
               THEN Return("Push successful!")
               ELSE Return("Error during git push")
    /\ UNCHANGED <<vars, buffer, cmd_inputs, env_vars, diff_output, system_prompt,
                   generated_message, editor_mode, editor_cmd, temp_file,
                   final_message, commit_calls, cmd_raised>>

\* lines 602-641: 'config' or 'config --view' prints the settings, the editor
\* of the environment among them
ConfigView(envs) ==
    /\ cmd_pc = "config"
    /\ \E e \in envs :
        /\ environ' = e[1]
        /\ git_config' = e[2]
        /\ env_editor' = get_editor_from_env(e[1], e[2])
    /\ Return("llm-git-commit configuration")
    /\ cmd_event' = NoEvent
    /\ UNCHANGED <<vars, buffer, cmd_inputs, diff_output, system_prompt, generated_message,
                   editor_mode, editor_cmd, temp_file, final_message, commit_calls,
                   subprocess_log, confirm_log, cmd_raised>>

\* lines 655-662: 'config --reset' asks before it deletes the configuration
ConfigReset(answer) ==
    /\ cmd_pc = "config"
    /\ confirm_log' = Append(confirm_log, Confirmation("reset", answer, FALSE))
    /\ cmd_event' = TextEvent(answer)
    /\ IF ClickConfirm(answer, FALSE)
       THEN /\ config' = NoConfig
            /\ Return("Configuration has been reset.")
       ELSE /\ UNCHANGED config
            /\ Return("Reset cancelled.")
    /\ UNCHANGED <<vars, buffer, use_external_flag, yes, editor_override,
                   prompt_style, system_prompt_override, diff_mode, prompt_files, env_vars, diff_output, system_prompt,
                   generated_message, editor_mode, editor_cmd, temp_file,
                   final_message, commit_calls, subprocess_log, cmd_raised>>

(***************************************************************************)
(* Specifications of the command line.                                     *)
(***************************************************************************)
NextCommand ==
    \/ \E result \in DiffResults : GetDiff(result)
    \/ \E answer \in ClickAnswers, add_result \in GitResults, diff_result \in DiffResults :
          StageAll(answer, add_result, diff_result)
    \/ \E model_result \in ModelResults : PrepareModel(model_result)
    \/ \E result \in GenerateResults : Generate(result)
    \/ UseDirectly
    \/ \E e \in CommitEnvironments \cup {<<NoEnvironment, NotRun>>} : SelectEditor(e[1], e[2])
    \/ InternalEdit
    \/ ExternalEdit
    \/ \E answer \in ClickAnswers, result \in GitResults : Proceed(answer, result)
    \/ \E answer \in ClickAnswers, result \in GitResults : Push(answer, result)
    \/ ConfigView(AllEnvironments)
    \/ \E answer \in ClickAnswers : ConfigReset(answer)

\* one run of 'llm git-commit' or of 'llm git-commit config'
SpecCommand == InitCommand /\ [][NextCommand]_<<vars, command_vars>>

\* lines 211-220: resolve_editor calls get_editor_from_env
ResolveReadsEnvironment(cfg, flag) ==
    \/ Get(cfg.editor, InternalMode) = EnvMode
    \/ flag /\ Get(cfg.editor, InternalMode) = InternalMode

\* resolve_editor called with both values of use_external_flag, on every
\* persisted setting and environment
InitResolve ==
    /\ NoSession
    /\ NothingDone
    /\ cmd_pc = "resolve_editor"
    /\ use_external_flag \in BOOLEAN
    /\ yes = FALSE
    /\ editor_override = None
    /\ prompt_style = None
    /\ system_prompt_override = None
    /\ diff_mode = "staged"
    /\ config \in Configs
    /\ prompt_files = InstalledPrompts

\* lines 197-227: one call of resolve_editor
ResolveEditor(envs) ==
    /\ cmd_pc = "resolve_editor"
    /\ \E e \in envs :
        /\ IF ResolveReadsEnvironment(config, use_external_flag)
           THEN e[2] # NotRun
           ELSE e = <<NoEnvironment, NotRun>>
        /\ environ' = e[1]
        /\ git_config' = e[2]
        /\ env_editor' = IF ResolveReadsEnvironment(config, use_external_flag)
                         THEN get_editor_from_env(e[1], e[2]) ELSE None
        /\ editor_mode' = resolve_editor(config, use_external_flag, e[1], e[2])[1]
        /\ editor_cmd' = resolve_editor(config, use_external_flag, e[1], e[2])[2]
    /\ cmd_pc' = "Returned"
    /\ UNCHANGED <<vars, buffer, cmd_inputs, diff_output, system_prompt,
                   generated_message, temp_file, final_message, commit_calls,
                   subprocess_log, confirm_log, cmd_event, cmd_raised, cmd_echo>>

NextResolve == ResolveEditor(AllEnvironments \cup {<<NoEnvironment, NotRun>>})

SpecResolve == InitResolve /\ [][NextResolve]_<<vars, command_vars>>

\* the built-in editor with a session opened by Ctrl+I: the session, its
\* return to the editor, and the editor handing its text over
NextEditor ==
    \/ Next
    \/ ChatRefineReturns
    \/ InternalEdit

SpecEditor == Init /\ [][NextEditor]_<<vars, command_vars>>

\* values of -s/--system and of -p/--prompt-style
SystemOverrides == { None, Some(<<>>), Some(<<"S"," ">>) }
StyleOverrides == { None, Some(<<>>), Some(<<"k">>), Some(<<"u">>) }

\* persisted prompt settings: the keys "prompt" and the legacy "prompt-style"
PromptConfigs ==
    { [NoConfig EXCEPT !.prompt = p, !.prompt_style = l] :
        p \in {None, Some(<<"k">>), Some(<<"u">>)},
        l \in {None, Some(<<"l">>), Some(<<"u">>)} }

\* The choice of the system prompt on every combination of the overrides, the
\* persisted settings and the prompt files: git_commit_command with the diff
\* at hand, up to the call of the model.
InitPrompt ==
    /\ NoSession
    /\ cmd_pc = "PrepareModel"
    /\ use_external_flag = FALSE
    /\ buffer = None
    /\ yes = FALSE
    /\ editor_override = None
    /\ prompt_style \in StyleOverrides
    /\ system_prompt_override \in SystemOverrides
    /\ diff_mode = "staged"
    /\ config \in PromptConfigs
    /\ prompt_files \in PromptStores
    /\ environ = NoEnvironment
    /\ git_config = NotRun
    /\ env_editor = None
    /\ diff_output = Some(<<"d">>)
    /\ system_prompt = None
    /\ generated_message = <<>>
    /\ editor_mode = <<>>
    /\ editor_cmd = None
    /\ temp_file = None
    /\ final_message = None
    /\ commit_calls = <<>>
    /\ subprocess_log = <<"git diff">>
    /\ confirm_log = <<>>
    /\ cmd_event = Completed(0, <<"d">>)
    /\ cmd_raised = "none"
    /\ cmd_echo = ""

NextPrompt == \E model_result \in {"ok"} : PrepareModel(model_result)

SpecPrompt == InitPrompt /\ [][NextPrompt]_<<vars, command_vars>>

(***************************************************************************)
(* Vocabulary of the claims, stated apart from the operators of the model. *)
(***************************************************************************)
\* sub occurs in s at the 1-based position i
Occurs(s, sub, i) ==
    /\ i + Len(sub) - 1 <= Len(s)
    /\ s[i] = sub[1]
    /\ \A k \in 1..Len(sub) : s[i + k - 1] = sub[k]

Contains(s, sub) == \E i \in DOMAIN s : Occurs(s, sub, i)

MarkerFree(s) ==
    /\ ~Contains(s, PROPOSED_COMMIT_MARKER_START)
    /\ ~Contains(s, PROPOSED_COMMIT_MARKER_END)

\* the trimmed, non-blank ones of the segments before and after a marker block
Segments(before, after) ==
    (IF IsBlank(before) THEN <<>> ELSE <<Strip(before)>>)
        \o (IF IsBlank(after) THEN <<>> ELSE <<Strip(after)>>)

\* an event of the query prompt that cancels: /cancel, empty input, Ctrl+C, Ctrl+D
CancelIssued(ev) ==
    \/ ev.kind \in {"KeyboardInterrupt", "EOFError"}
    \/ ev.kind = "text" /\ (IsBlank(ev.text) \/ ToLower(Strip(ev.text)) = CancelCommand)

\* an event of the query prompt that applies: /apply or Ctrl+A
ApplyIssued(ev) ==
    \/ ev.kind = "ctrl_a"
    \/ ev.kind = "text" /\ ToLower(Strip(ev.text)) = ApplyCommand

\* proposals accepted so far in the session
AcceptedCount ==
    Cardinality({i \in DOMAIN chat_history : chat_history[i] = User(AcceptedNote)})

Running == pc \in {"Prompting", "ApplyConfirm", "ChatPending", "ProposalConfirm"}

(***************************************************************************)
(* Claims about the session, checked under Spec.                           *)
(***************************************************************************)
\* C1: every cancelling event at the query prompt (/cancel, empty input,
\* Ctrl+C, Ctrl+D) ends the session, and a cancelled session returns exactly
\* the seed draft, whatever proposals were accepted before.
C1_CancelReturnsSeed ==
    /\ [](pc = "Cancelled" =>
            /\ returned = Some(initial_commit_draft)
            /\ raised = "none")
    /\ [][pc = "Prompting" /\ CancelIssued(event') =>
            /\ pc' = "Cancelled"
            /\ returned' = Some(initial_commit_draft)]_vars

\* C1 witness: Ctrl+C at the query prompt after two accepted proposals
C1_Witness ==
    /\ pc = "Cancelled"
    /\ event = KeyboardInterrupt
    /\ AcceptedCount = 2
    /\ message_being_refined_in_chat # initial_commit_draft
    /\ returned = Some(initial_commit_draft)

\* C2: at the proposal confirmation with proposal P and draft D, accepting
\* makes the draft exactly P, rejecting leaves it D, and either way the
\* session is prompting again and has returned nothing.
C2_AcceptReplacesRejectKeeps ==
    [][pc = "ProposalConfirm" /\ event'.kind = "text" =>
        /\ pc' = "Prompting"
        /\ returned' = None
        /\ raised' = "none"
        /\ IF IsYes(event'.text)
           THEN message_being_refined_in_chat' = extracted_proposal_text[1]
           ELSE message_being_refined_in_chat' = message_being_refined_in_chat]_vars

\* C2 witness: a proposal accepted in the turn after a rejected one
C2_Witness ==
    /\ pc = "Prompting"
    /\ echo = "Proposal accepted. Current draft updated."
    /\ \E i \in DOMAIN chat_history : chat_history[i] = Assistant(RejectedNote)
    /\ message_being_refined_in_chat = extracted_proposal_text[1]
    /\ message_being_refined_in_chat # initial_commit_draft

\* C3: /apply or Ctrl+A with a blank draft asks no confirmation and does not
\* end the session: it prompts again, draft and history unchanged.
C3_ApplyOnBlankDraftRejected ==
    [][pc = "Prompting" /\ ApplyIssued(event') /\ IsBlank(message_being_refined_in_chat) =>
        /\ pc' = "Prompting"
        /\ returned' = None
        /\ message_being_refined_in_chat' = message_being_refined_in_chat
        /\ chat_history' = chat_history]_vars

\* C3 witness: Ctrl+A on a whitespace-only draft, after a chat turn
C3_Witness ==
    /\ pc = "Prompting"
    /\ event.kind = "ctrl_a"
    /\ echo = "Current draft is empty. Cannot apply."
    /\ message_being_refined_in_chat = <<" ">>
    /\ chat_history # <<>>
    /\ returned = None

\* C4: /apply with a non-blank draft D asks for confirmation; yes ends the
\* session returning exactly D, no prompts again with draft and history
\* unchanged.
C4_ApplyReturnsCurrentDraft ==
    [][/\ (pc = "Prompting" /\ ApplyIssued(event')
               /\ ~IsBlank(message_being_refined_in_chat) =>
            /\ pc' = "ApplyConfirm"
            /\ message_being_refined_in_chat' = message_being_refined_in_chat
            /\ chat_history' = chat_history)
       /\ (pc = "ApplyConfirm" /\ event'.kind = "text" =>
            IF IsYes(event'.text)
            THEN /\ pc' = "Applied"
                 /\ returned' = Some(message_being_refined_in_chat)
            ELSE /\ pc' = "Prompting"
                 /\ returned' = None
                 /\ message_being_refined_in_chat' = message_being_refined_in_chat
                 /\ chat_history' = chat_history)]_vars

\* C4 witness: a confirmed apply of a draft that two accepted proposals changed
C4_Witness ==
    /\ pc = "Applied"
    /\ AcceptedCount = 2
    /\ message_being_refined_in_chat # initial_commit_draft
    /\ returned = Some(message_being_refined_in_chat)

\* C5: an interrupt or end-of-input at any suspension point is a Cancel: the
\* session is Cancelled with the seed draft returned and no exception leaves
\* _chat_for_refinement.
C5_InterruptIsCancel ==
    event.kind \in {"KeyboardInterrupt", "EOFError"} =>
        /\ pc = "Cancelled"
        /\ returned = Some(initial_commit_draft)
        /\ raised = "none"

\* C6: when the model call raises an Exception the session goes on: no
\* proposal is asked about, the draft is unchanged, one assistant entry with
\* the error note is appended and the session prompts again.
C6_ModelErrorIsNotFatal ==
    [][pc = "ChatPending" /\ event'.kind = "Exception" =>
        /\ pc' = "Prompting"
        /\ returned' = None
        /\ raised' = "none"
        /\ extracted_proposal_text' = None
        /\ message_being_refined_in_chat' = message_being_refined_in_chat
        /\ chat_history' =
               Append(chat_history,
                      Assistant(LLMErrorPrefix \o event'.text \o <<")">>))]_vars

\* C6 witness: a failed model call after a turn that accepted a proposal
C6_Witness ==
    /\ pc = "Prompting"
    /\ event.kind = "Exception"
    /\ AcceptedCount = 1
    /\ chat_history[Len(chat_history)].role = "assistant"
    /\ chat_history[Len(chat_history)].content = LLMErrorPrefix \o event.text \o <<")">>
    /\ message_being_refined_in_chat # initial_commit_draft

(***************************************************************************)
(* Claims about the parsing of a reply, checked under SpecParse: the       *)
(* state after the reply holds it and the locals the parsing set.          *)
(***************************************************************************)
Parsed == pc # "ChatPending"

StartLen == Len(PROPOSED_COMMIT_MARKER_START)
EndLen == Len(PROPOSED_COMMIT_MARKER_END)

\* the reply is before \o START \o between \o END \o after, START at position i
\* and END at position j
Before(r, i) == SubSeq(r, 1, i - 1)
Between(r, i, j) == SubSeq(r, i + StartLen, j - 1)
After(r, j) == SubSeq(r, j + EndLen, Len(r))

MarkerBlock(r, i, j) ==
    /\ j >= i + StartLen
    /\ Occurs(r, PROPOSED_COMMIT_MARKER_START, i)
    /\ Occurs(r, PROPOSED_COMMIT_MARKER_END, j)

\* some start marker has an end marker after its end
Pairs(r) ==
    \E i \in DOMAIN r :
        /\ Occurs(r, PROPOSED_COMMIT_MARKER_START, i)
        /\ \E j \in (i + StartLen)..Len(r) : Occurs(r, PROPOSED_COMMIT_MARKER_END, j)

\* C7 as stated: every non-empty reply without a start marker, the
\* whitespace-only ones included, yields exactly one conversational segment,
\* the trimmed reply, and no proposal.
C7_NoStartMarkerOneSegment ==
    Parsed /\ llm_full_response_text # <<>>
           /\ ~Contains(llm_full_response_text, PROPOSED_COMMIT_MARKER_START) =>
        /\ conversational_parts_to_print = <<Strip(llm_full_response_text)>>
        /\ extracted_proposal_text = None

\* C7 amended: a reply without a start marker yields no proposal; if it is
\* not blank it yields exactly one conversational segment, the trimmed reply;
\* if it is empty or whitespace-only it yields no conversational segment.
C7_NoStartMarkerAmended ==
    Parsed /\ ~Contains(llm_full_response_text, PROPOSED_COMMIT_MARKER_START) =>
        /\ extracted_proposal_text = None
        /\ pc = "Prompting"
        /\ conversational_parts_to_print =
               IF IsBlank(llm_full_response_text)
               THEN <<>>
               ELSE <<Strip(llm_full_response_text)>>

\* C7 witness: a reply with an end marker only, surrounded by whitespace
C7_Witness ==
    /\ Parsed
    /\ ~Contains(llm_full_response_text, PROPOSED_COMMIT_MARKER_START)
    /\ Contains(llm_full_response_text, PROPOSED_COMMIT_MARKER_END)
    /\ Strip(llm_full_response_text) # llm_full_response_text
    /\ conversational_parts_to_print = <<Strip(llm_full_response_text)>>
    /\ extracted_proposal_text = None

\* C8: for a reply A + START + B + END + C with A, B, C free of markers and B
\* not blank, the proposal is trim(B) and the conversational segments are
\* trim(A), trim(C) in this order, the blank ones dropped.
C8_MarkerExtraction ==
    Parsed =>
        \A i \in DOMAIN llm_full_response_text :
            Occurs(llm_full_response_text, PROPOSED_COMMIT_MARKER_START, i) =>
                \A j \in (i + StartLen)..Len(llm_full_response_text) :
                    (/\ MarkerBlock(llm_full_response_text, i, j)
                     /\ MarkerFree(Before(llm_full_response_text, i))
                     /\ MarkerFree(Between(llm_full_response_text, i, j))
                     /\ MarkerFree(After(llm_full_response_text, j))
                     /\ ~IsBlank(Between(llm_full_response_text, i, j)))
                    => /\ extracted_proposal_text =
                              Some(Strip(Between(llm_full_response_text, i, j)))
                       /\ conversational_parts_to_print =
                              Segments(Before(llm_full_response_text, i),
                                       After(llm_full_response_text, j))

\* C8 witness: A, B and C all non-blank, B surrounded by whitespace
C8_Witness ==
    /\ pc = "ProposalConfirm"
    /\ Len(conversational_parts_to_print) = 2
    /\ \E i, j \in DOMAIN llm_full_response_text :
        /\ MarkerBlock(llm_full_response_text, i, j)
        /\ MarkerFree(Before(llm_full_response_text, i))
        /\ MarkerFree(Between(llm_full_response_text, i, j))
        /\ MarkerFree(After(llm_full_response_text, j))
        /\ Strip(Between(llm_full_response_text, i, j)) # Between(llm_full_response_text, i, j)
        /\ extracted_proposal_text = Some(Strip(Between(llm_full_response_text, i, j)))

\* C9: for a reply A + START + W + END + C with W empty or whitespace-only (A
\* without start marker), there is no proposal: no confirmation is asked and
\* the draft is unchanged, while the conversational segments are trim(A),
\* trim(C), the blank ones dropped, not the whole reply.
C9_VacuousProposal ==
    Parsed =>
        \A i \in DOMAIN llm_full_response_text :
            Occurs(llm_full_response_text, PROPOSED_COMMIT_MARKER_START, i) =>
                \A j \in (i + StartLen)..Len(llm_full_response_text) :
                    (/\ MarkerBlock(llm_full_response_text, i, j)
                     /\ ~Contains(Before(llm_full_response_text, i),
                                  PROPOSED_COMMIT_MARKER_START)
                     /\ IsBlank(Between(llm_full_response_text, i, j)))
                    => /\ extracted_proposal_text = None
                       /\ pc = "Prompting"
                       /\ message_being_refined_in_chat = initial_commit_draft
                       /\ conversational_parts_to_print =
                              Segments(Before(llm_full_response_text, i),
                                       After(llm_full_response_text, j))

\* C9 witness: a vacuous block with text on both sides
C9_Witness ==
    /\ pc = "Prompting"
    /\ extracted_proposal_text = None
    /\ Len(conversational_parts_to_print) = 2
    /\ conversational_parts_to_print # <<Strip(llm_full_response_text)>>
    /\ \E i, j \in DOMAIN llm_full_response_text :
        /\ MarkerBlock(llm_full_response_text, i, j)
        /\ ~Contains(Before(llm_full_response_text, i), PROPOSED_COMMIT_MARKER_START)
        /\ Between(llm_full_response_text, i, j) = <<" ">>

\* C10: for a reply whose markers do not pair (a start marker with no end
\* marker after it, an end marker only, an end marker only before the start
\* marker), there is no proposal, the whole trimmed reply, markers included,
\* is the one conversational segment, and nothing is raised.
C10_UnpairedMarkers ==
    (/\ Parsed
     /\ \/ Contains(llm_full_response_text, PROPOSED_COMMIT_MARKER_START)
        \/ Contains(llm_full_response_text, PROPOSED_COMMIT_MARKER_END)
     /\ ~Pairs(llm_full_response_text))
    => /\ extracted_proposal_text = None
       /\ conversational_parts_to_print = <<Strip(llm_full_response_text)>>
       /\ pc = "Prompting"
       /\ raised = "none"
       /\ echo = "LLM:"

\* C10 witness: an end marker that occurs only before the start marker
C10_Witness ==
    /\ Parsed
    /\ Contains(llm_full_response_text, PROPOSED_COMMIT_MARKER_START)
    /\ Contains(llm_full_response_text, PROPOSED_COMMIT_MARKER_END)
    /\ ~Pairs(llm_full_response_text)
    /\ extracted_proposal_text = None
    /\ conversational_parts_to_print = <<Strip(llm_full_response_text)>>
    /\ Strip(llm_full_response_text) # llm_full_response_text

\* the first start marker of r is at position i
FirstStartAt(r, i) ==
    /\ Occurs(r, PROPOSED_COMMIT_MARKER_START, i)
    /\ \A k \in 1..(i - 1) : ~Occurs(r, PROPOSED_COMMIT_MARKER_START, k)

\* the first end marker of r after the end of the start marker at i is at j
FirstEndAfterAt(r, i, j) ==
    /\ j >= i + StartLen
    /\ Occurs(r, PROPOSED_COMMIT_MARKER_END, j)
    /\ \A k \in (i + StartLen)..(j - 1) : ~Occurs(r, PROPOSED_COMMIT_MARKER_END, k)

\* C11: a proposal is extracted (and asked about) if and only if the reply has
\* a start marker, an end marker after the end of the first start marker, and
\* the text between the first start marker and the first such end marker is
\* not blank.
C11_ProposalIffPairedNonBlank ==
    Parsed =>
        /\ (pc = "ProposalConfirm") = (extracted_proposal_text # None)
        /\ (extracted_proposal_text # None) =
              (\E i \in DOMAIN llm_full_response_text :
                  /\ FirstStartAt(llm_full_response_text, i)
                  /\ \E j \in (i + StartLen)..Len(llm_full_response_text) :
                        /\ FirstEndAfterAt(llm_full_response_text, i, j)
                        /\ ~IsBlank(Between(llm_full_response_text, i, j)))

\* C11 witness: a proposal from a reply with an end marker before the first
\* start marker and a second start marker before the first end marker after it
C11_Witness ==
    /\ pc = "ProposalConfirm"
    /\ extracted_proposal_text # None
    /\ \E i \in DOMAIN llm_full_response_text :
        /\ FirstStartAt(llm_full_response_text, i)
        /\ \E k \in 1..(i - 1) : Occurs(llm_full_response_text, PROPOSED_COMMIT_MARKER_END, k)
        /\ \E j \in (i + StartLen)..Len(llm_full_response_text) :
            /\ FirstEndAfterAt(llm_full_response_text, i, j)
            /\ Contains(Between(llm_full_response_text, i, j), PROPOSED_COMMIT_MARKER_START)

\* C12 as stated, in its weakest reading (non-blank replies, the segment
\* compared after trimming): whenever no proposal is extracted, the
\* conversational part is the entire reply as one segment, also for a reply
\* with a paired but vacuous marker block.
C12_NoProposalWholeReply ==
    Parsed /\ extracted_proposal_text = None /\ ~IsBlank(llm_full_response_text) =>
        conversational_parts_to_print = <<Strip(llm_full_response_text)>>

\* C12 amended: whenever no proposal is extracted, the conversational part is
\* empty for a blank reply, the entire trimmed reply as one segment for a reply
\* whose markers do not pair, and for a reply with a paired but vacuous marker
\* block the trimmed text before the first start marker and the trimmed text
\* after the first end marker following it, blank ones dropped.
C12_NoProposalAmended ==
    Parsed /\ extracted_proposal_text = None =>
        /\ IsBlank(llm_full_response_text) => conversational_parts_to_print = <<>>
        /\ ~IsBlank(llm_full_response_text) /\ ~Pairs(llm_full_response_text) =>
              conversational_parts_to_print = <<Strip(llm_full_response_text)>>
        /\ \A i \in DOMAIN llm_full_response_text :
              FirstStartAt(llm_full_response_text, i) =>
                  \A j \in (i + StartLen)..Len(llm_full_response_text) :
                      FirstEndAfterAt(llm_full_response_text, i, j) =>
                          /\ IsBlank(Between(llm_full_response_text, i, j))
                          /\ conversational_parts_to_print =
                                 Segments(Before(llm_full_response_text, i),
                                          After(llm_full_response_text, j))

\* C12 witness: a vacuous marker block followed by text; the one segment is
\* the text after the end marker, not the reply
C12_Witness ==
    /\ pc = "Prompting"
    /\ extracted_proposal_text = None
    /\ Pairs(llm_full_response_text)
    /\ Len(conversational_parts_to_print) = 1
    /\ conversational_parts_to_print # <<Strip(llm_full_response_text)>>
    /\ ~Contains(conversational_parts_to_print[1], PROPOSED_COMMIT_MARKER_START)

\* C13: for a reply with marker tokens after the first end marker that follows
\* the first start marker, the proposal is the trimmed text between those two
\* markers (none if it is blank), and everything after that end marker, later
\* markers and their content included, is the trailing conversational segment,
\* trimmed at its ends only.
C13_FirstPairOnly ==
    Parsed =>
        \A i \in DOMAIN llm_full_response_text :
            FirstStartAt(llm_full_response_text, i) =>
                \A j \in (i + StartLen)..Len(llm_full_response_text) :
                    (/\ FirstEndAfterAt(llm_full_response_text, i, j)
                     /\ ~MarkerFree(After(llm_full_response_text, j)))
                    => /\ extracted_proposal_text =
                              IF IsBlank(Between(llm_full_response_text, i, j))
                              THEN None
                              ELSE Some(Strip(Between(llm_full_response_text, i, j)))
                       /\ conversational_parts_to_print =
                              Segments(Before(llm_full_response_text, i),
                                       After(llm_full_response_text, j))
                       /\ conversational_parts_to_print[Len(conversational_parts_to_print)]
                              = Strip(After(llm_full_response_text, j))

\* C13 witness: two marker pairs with content, the second one whole in the
\* trailing segment and the proposal taken from the first
C13_Witness ==
    /\ pc = "ProposalConfirm"
    /\ Len(conversational_parts_to_print) = 1
    /\ Pairs(conversational_parts_to_print[1])
    /\ extracted_proposal_text # None
    /\ MarkerFree(extracted_proposal_text[1])
    /\ \E i \in DOMAIN llm_full_response_text :
        /\ FirstStartAt(llm_full_response_text, i)
        /\ \E j \in (i + StartLen)..Len(llm_full_response_text) :
            /\ FirstEndAfterAt(llm_full_response_text, i, j)
            /\ conversational_parts_to_print[1] = Strip(After(llm_full_response_text, j))

(***************************************************************************)
(* Claims about the turns of a session, checked under Spec.                *)
(***************************************************************************)
\* a step that forwards nothing to the model
NothingForwarded ==
    /\ pc' # "ChatPending"
    /\ chat_history' = chat_history
    /\ messages_for_llm' = messages_for_llm
    /\ chat_turns' = chat_turns

\* C14: at the query prompt, a line that trims to /cancel in any letter case
\* is a Cancel; a line that trims to /apply in any letter case, or Ctrl+A
\* whatever the buffer holds, is an Apply; neither reaches the model.
C14_CommandsClassified ==
    [][pc = "Prompting" =>
        /\ (event'.kind = "text" /\ ToLower(Strip(event'.text)) = CancelCommand =>
                /\ pc' = "Cancelled"
                /\ echo' = "Chat cancelled. Returning original draft."
                /\ NothingForwarded)
        /\ (ApplyIssued(event') =>
                /\ pc' \in {"Prompting", "ApplyConfirm"}
                /\ echo' \in {"Current draft is empty. Cannot apply.",
                              "This is the current draft that will be applied:"}
                /\ final_message_to_apply' = message_being_refined_in_chat
                /\ NothingForwarded)]_vars

\* C14 witness: Ctrl+A with text in the buffer, after a chat turn, is an Apply
C14_Witness ==
    /\ pc = "ApplyConfirm"
    /\ event = CtrlAEvent(<<"a">>)
    /\ chat_turns = 1
    /\ \A i \in DOMAIN chat_history : chat_history[i] # User(<<"a">>)

\* C15: empty or whitespace-only input at the query prompt ends the session
\* as a Cancel: the seed draft is returned, the model is not called and the
\* prompt is not shown again.
C15_EmptyInputCancels ==
    [][pc = "Prompting" /\ event'.kind = "text" /\ IsBlank(event'.text) =>
        /\ pc' = "Cancelled"
        /\ returned' = Some(initial_commit_draft)
        /\ raised' = "none"
        /\ NothingForwarded]_vars

\* C15 witness: a whitespace-only line after an accepted proposal
C15_Witness ==
    /\ pc = "Cancelled"
    /\ event = TextEvent(<<" ">>)
    /\ AcceptedCount = 1
    /\ message_being_refined_in_chat # initial_commit_draft
    /\ returned = Some(initial_commit_draft)

\* C16: a line that is neither Cancel nor Apply is forwarded: one user turn
\* with the trimmed line is appended, then the model is called with the
\* system prompt followed by the whole history in order; only such a line
\* starts a model call and each call is answered once.
C16_ChatQueryForwarded ==
    [][/\ (pc = "Prompting" /\ event'.kind = "text"
               /\ ~CancelIssued(event') /\ ~ApplyIssued(event') =>
            /\ pc' = "ChatPending"
            /\ chat_history' = Append(chat_history, User(Strip(event'.text)))
            /\ Len(messages_for_llm') = Len(chat_history') + 1
            /\ messages_for_llm'[1].role = "system"
            /\ \A i \in DOMAIN chat_history' : messages_for_llm'[i + 1] = chat_history'[i]
            /\ chat_turns' = chat_turns + 1)
       /\ (pc' = "ChatPending" =>
            /\ pc = "Prompting"
            /\ event'.kind = "text"
            /\ ~CancelIssued(event') /\ ~ApplyIssued(event'))
       /\ (pc = "ChatPending" =>
            /\ pc' # "ChatPending"
            /\ messages_for_llm' = messages_for_llm
            /\ chat_turns' = chat_turns)]_vars

\* C16 witness: the second query of a session, its context holding the first
\* turn, the note of the accepted proposal and the new query
C16_Witness ==
    /\ pc = "ChatPending"
    /\ chat_turns = 2
    /\ AcceptedCount = 1
    /\ Len(messages_for_llm) = 5
    /\ messages_for_llm[1].role = "system"
    /\ messages_for_llm[2] = User(<<"b">>)
    /\ messages_for_llm[3] = User(AcceptedNote)
    /\ messages_for_llm[5] = User(<<"b">>)

\* the draft field of a chat system prompt: what stands between the
\* CURRENT DRAFT START and CURRENT DRAFT END lines
DraftField(prompt) ==
    SubSeq(prompt,
           Len(TemplateDiffStart) + Len(original_diff) + Len(TemplateDraftStart) + 1,
           Len(prompt) - Len(TemplateDraftEnd))

\* the proposal accepted last in the session (the history entry after the
\* latest acceptance note), the seed draft if none was
LastAcceptedDraft ==
    LET notes == {i \in DOMAIN chat_history : chat_history[i] = User(AcceptedNote)}
    IN IF notes = {} THEN initial_commit_draft
       ELSE chat_history[(CHOOSE i \in notes : \A j \in notes : i >= j) + 1].content

\* C17: the system prompt of each model call embeds the draft current at that
\* turn: the proposal accepted last, or the seed draft while none was
\* accepted (rejections change nothing).
C17_SystemPromptHasCurrentDraft ==
    pc = "ChatPending" =>
        /\ messages_for_llm[1].role = "system"
        /\ DraftField(messages_for_llm[1].content) = message_being_refined_in_chat
        /\ DraftField(messages_for_llm[1].content) = LastAcceptedDraft

\* C17 witness: the query after an accepted proposal that differs from the seed
C17_Witness ==
    /\ pc = "ChatPending"
    /\ AcceptedCount = 1
    /\ DraftField(messages_for_llm[1].content) # initial_commit_draft
    /\ DraftField(messages_for_llm[1].content) = LastAcceptedDraft

\* C18: every chat turn that ends without a proposal (text, an empty reply,
\* an error, a reply made of a vacuous marker block only) appends exactly one
\* assistant entry to the history before the next prompt.
C18_NoProposalAppendsAssistant ==
    [][pc = "ChatPending" /\ pc' = "Prompting" =>
        /\ Len(chat_history') = Len(chat_history) + 1
        /\ SubSeq(chat_history', 1, Len(chat_history)) = chat_history
        /\ chat_history'[Len(chat_history')].role = "assistant"]_vars

\* C19: the session ends only by a Cancel or a confirmed Apply, and then it
\* has returned a result.
C19_EndsByCancelOrApplyOnly ==
    ~Running =>
        /\ pc \in {"Cancelled", "Applied"}
        /\ returned # None

\* C20: the current draft changes only in the step that accepts a proposal,
\* where it becomes the proposal; the seed draft never changes.
C20_DraftChangesOnAcceptOnly ==
    [][/\ initial_commit_draft' = initial_commit_draft
       /\ (message_being_refined_in_chat' # message_being_refined_in_chat =>
            /\ pc = "ProposalConfirm"
            /\ event'.kind = "text"
            /\ IsYes(event'.text)
            /\ message_being_refined_in_chat' = extracted_proposal_text[1])]_vars

\* C20 witness: after an accepted proposal, a declined apply and a failed
\* model call, the draft is still that proposal and the seed is as it was
C20_Witness ==
    /\ pc = "Prompting"
    /\ event.kind = "Exception"
    /\ AcceptedCount = 1
    /\ final_message_to_apply = message_being_refined_in_chat
    /\ message_being_refined_in_chat = LastAcceptedDraft
    /\ message_being_refined_in_chat # initial_commit_draft

(***************************************************************************)
(* Claims about the command line, checked under SpecCommand.               *)
(***************************************************************************)
\* the confirmations of the run that were answered with an empty line
EmptyAnswered(prompt) ==
    \E i \in DOMAIN confirm_log :
        confirm_log[i].prompt = prompt /\ IsBlank(confirm_log[i].answer)

Started(process) == \E i \in DOMAIN subprocess_log : subprocess_log[i] = process

\* C21 as stated: at every confirmation an empty response means yes.
C21_EmptyMeansYesEverywhere ==
    /\ EmptyAnswered("stage all") => Started("git add")
    /\ EmptyAnswered("Proceed?") => Started("git commit")
    /\ EmptyAnswered("push") => Started("git push")
    /\ EmptyAnswered("reset") => cmd_echo = "Configuration has been reset."

\* C21 amended: an empty response means yes at 'stage all changes and
\* commit?' and at 'Proceed?' (the staging and the commit are run), and no at
\* 'push the changes?' and at the reset confirmation (nothing is pushed,
\* nothing is reset).
C21_EmptyMeansDefault ==
    /\ EmptyAnswered("stage all") => Started("git add")
    /\ EmptyAnswered("Proceed?") => Started("git commit")
    /\ EmptyAnswered("push") =>
          /\ ~Started("git push")
          /\ cmd_pc = "Returned"
          /\ cmd_echo = "Commit successful!"
    /\ EmptyAnswered("reset") =>
          /\ cmd_echo = "Reset cancelled."
          /\ cmd_pc = "Returned"

\* C21 witness: a run with the three confirmations of a commit, each
\* answered with an empty line: staged, committed, not pushed
C21_Witness ==
    /\ cmd_pc = "Returned"
    /\ Len(confirm_log) = 3
    /\ \A i \in DOMAIN confirm_log : confirm_log[i].answer = <<>>
    /\ subprocess_log[Len(subprocess_log)] = "git commit"
    /\ Started("git add")

\* an editor option or setting that is a command, not a mode
IsCommand(x) == Truthy(x) /\ x[1] \notin {EnvMode, InternalMode}

\* the editor was chosen and is open
EditorOpen == cmd_pc \in {"InternalEditor", "ExternalEditor"}

ExternalOpenWith(command) ==
    cmd_pc = "ExternalEditor" /\ editor_cmd = Some(command) /\ temp_file # None

\* C22: the editor opened follows the precedence -e COMMAND, -e alone or
\* -e env (environment), persisted command, persisted env, built-in editor;
\* environment mode opens the editor found there, the built-in one if none;
\* -e internal opens the built-in editor.
C22_EditorPrecedence ==
    EditorOpen =>
        IF IsCommand(editor_override) THEN ExternalOpenWith(editor_override[1])
        ELSE IF editor_override = Some(EnvMode)
        THEN IF Truthy(env_editor) THEN ExternalOpenWith(env_editor[1])
             ELSE cmd_pc = "InternalEditor"
        ELSE IF editor_override = Some(InternalMode) THEN cmd_pc = "InternalEditor"
        ELSE IF IsCommand(config.editor) THEN ExternalOpenWith(config.editor[1])
        ELSE IF config.editor = Some(EnvMode)
        THEN IF Truthy(env_editor) THEN ExternalOpenWith(env_editor[1])
             ELSE cmd_pc = "InternalEditor"
        ELSE cmd_pc = "InternalEditor"

\* C22 witness: -e vim with the persisted setting internal opens vim
C22_Witness ==
    /\ editor_override = Some(Vim)
    /\ config.editor = Some(InternalMode)
    /\ ExternalOpenWith(Vim)
    /\ editor_mode = CommandMode

\* the value 'git config core.editor' printed, if it succeeded
GitCoreEditor ==
    IF git_config.kind = "completed" /\ git_config.returncode = 0
    THEN Some(Strip(git_config.stdout))
    ELSE None

\* the four places an editor is looked for in, in the order of the claim
Candidates == <<environ.LLM_GIT_COMMIT_EDITOR, GitCoreEditor, environ.VISUAL, environ.EDITOR>>

EnvironmentRead == git_config # NotRun

\* C23: get_editor_from_env returns the first non-empty one of
\* LLM_GIT_COMMIT_EDITOR, git config core.editor, VISUAL, EDITOR, and no
\* editor (None or an empty string) exactly when all four are empty or unset.
C23_FirstNonEmptyWins ==
    EnvironmentRead =>
        LET found == {i \in 1..4 : Truthy(Candidates[i])}
        IN IF found = {} THEN ~Truthy(env_editor)
           ELSE /\ Truthy(env_editor)
                /\ env_editor = Candidates[CHOOSE i \in found : \A j \in found : i <= j]

\* C23 witness: LLM_GIT_COMMIT_EDITOR empty, git config printing blanks,
\* VISUAL unset: the editor is the one of EDITOR
C23_Witness ==
    /\ cmd_pc = "Returned"
    /\ environ = Environment(Some(<<>>), None, Some(<<"e">>))
    /\ git_config = Completed(0, <<" ","\n">>)
    /\ env_editor = Some(<<"e">>)

\* environment mode is selected: by -e alone, or by the persisted setting
EnvModeSelected ==
    \/ editor_override = Some(EnvMode)
    \/ editor_override = None /\ config.editor = Some(EnvMode)

\* C24: when environment mode is selected and the environment has no editor,
\* the built-in editor is opened: no external process, no temporary file, no
\* abort and no exception.
C24_EnvWithoutEditorFallsBack ==
    (/\ EnvModeSelected
     /\ EnvironmentRead
     /\ \A i \in 1..4 : ~Truthy(Candidates[i])
     /\ cmd_pc \notin {"git-commit", "config"})
    => /\ ~Started("editor")
       /\ temp_file = None
       /\ cmd_raised \in {"none", "KeyboardInterrupt", "EOFError"}
       /\ EditorOpen => cmd_pc = "InternalEditor"

\* C24 witness: -e alone over a persisted command, nothing in the
\* environment: the built-in editor is open, with the warning
C24_Witness ==
    /\ cmd_pc = "InternalEditor"
    /\ editor_override = Some(EnvMode)
    /\ config.editor = Some(Nano)
    /\ EnvironmentRead
    /\ ~Truthy(env_editor)
    /\ cmd_echo = "Warning: No external editor found in environment. Using built-in editor."

\* C25: the temporary file exists while edit_with_external_editor runs the
\* editor and at no other time: it is gone when the function has returned or
\* raised, whether the editor exited with 0, with another code, or could not
\* be started.
C25_TempFileRemoved ==
    /\ cmd_pc = "ExternalEditor" => temp_file # None
    /\ cmd_pc # "ExternalEditor" => temp_file = None

\* C25 witness: the editor exited with a non-zero code; the file is gone
C25_Witness ==
    /\ Started("editor")
    /\ cmd_event.kind = "completed"
    /\ cmd_event.returncode # 0
    /\ final_message = None
    /\ cmd_echo = "Commit aborted."
    /\ temp_file = None

\* C26: a failure of a collaborator (the model call, git diff, git add, the
\* editor process, git commit, git push) is reported and the command returns;
\* no exception leaves it.
C26_FailuresAreCaught ==
    cmd_event.kind \in {"Exception", "CalledProcessError", "FileNotFoundError"} =>
        /\ cmd_pc = "Returned"
        /\ cmd_raised = "none"
        /\ cmd_echo # ""

\* C27: _execute_git_commit is called at most once and only with a message
\* that is not blank; a final message that is None, empty or whitespace-only
\* ends the command before the call.
C27_CommitOnlyNonBlank ==
    /\ Len(commit_calls) <= 1
    /\ \A i \in DOMAIN commit_calls :
          /\ ~IsBlank(commit_calls[i])
          /\ final_message = Some(commit_calls[i])
    /\ (cmd_pc \in {"ProceedConfirm", "PushConfirm"} \/ Started("git commit")) =>
          commit_calls # <<>>
    /\ (final_message = None \/ IsBlank(final_message[1])) => commit_calls = <<>>

\* C27 witness: the built-in editor handed back whitespace only; the command
\* ended without the call
C27_Witness ==
    /\ cmd_pc = "Returned"
    /\ final_message = Some(<<" ","\n">>)
    /\ generated_message # <<>>
    /\ commit_calls = <<>>
    /\ cmd_echo = "Commit aborted."

\* C28: with --yes no interactive step follows the generation of the message:
\* no editor is opened and no confirmation is asked before git commit.
C28_YesAsksNothing ==
    yes => /\ ~EditorOpen
           /\ cmd_pc # "ProceedConfirm"
           /\ \A i \in DOMAIN confirm_log : confirm_log[i].prompt # "Proceed?"

(***************************************************************************)
(* Claims about the system prompt, checked under SpecPrompt.               *)
(***************************************************************************)
\* the prompt text a style name stands for, if it has one
StyleText(name) ==
    IF Truthy(name) /\ Truthy(get_prompt_content(prompt_files, name[1]))
    THEN get_prompt_content(prompt_files, name[1])
    ELSE None

\* C29: the system prompt is the -s text verbatim if it is not empty; else the
\* prompt of the -p style, a ValueError if that style has none; else the
\* prompt of the persisted style, of the legacy persisted style, of the
\* default style, the built-in text, the first there is, and no error.
C29_SystemPromptPriority ==
    cmd_pc # "PrepareModel" =>
        IF Truthy(system_prompt_override)
        THEN system_prompt = system_prompt_override
        ELSE IF Truthy(prompt_style)
        THEN IF StyleText(prompt_style) # None
             THEN system_prompt = StyleText(prompt_style)
             ELSE /\ cmd_event = ValueError
                  /\ system_prompt = None
                  /\ cmd_pc = "Returned"
        ELSE /\ cmd_event.kind = "return"
             /\ cmd_pc = "Generating"
             /\ system_prompt =
                  IF StyleText(config.prompt) # None THEN StyleText(config.prompt)
                  ELSE IF StyleText(config.prompt_style) # None
                  THEN StyleText(config.prompt_style)
                  ELSE IF StyleText(Some(DEFAULT_PROMPT_STYLE)) # None
                  THEN StyleText(Some(DEFAULT_PROMPT_STYLE))
                  ELSE Some(DEFAULT_GIT_COMMIT_SYSTEM_PROMPT)

\* C29 witness: an unknown -p style is an error although the persisted style
\* and the default style have prompts
C29_Witness ==
    /\ cmd_event = ValueError
    /\ prompt_style = Some(<<"u">>)
    /\ StyleText(config.prompt) # None
    /\ StyleText(Some(DEFAULT_PROMPT_STYLE)) # None
    /\ system_prompt = None

(***************************************************************************)
(* Claims about the history of a session, checked under Spec.              *)
(***************************************************************************)
\* C30 as stated: an answer to the proposal confirmation adds exactly one
\* entry to the history, an assistant turn.
C30_OneAssistantEntryPerAnswer ==
    [][pc = "ProposalConfirm" /\ event'.kind = "text" =>
        /\ Len(chat_history') = Len(chat_history) + 1
        /\ chat_history'[Len(chat_history')].role = "assistant"]_vars

\* C30 amended: accepting a proposal adds two entries, the user-role note of
\* the acceptance and an assistant turn holding the accepted draft; rejecting
\* it adds one assistant turn holding the text around the marker block, or
\* the placeholder if there is none, and never the text between the markers.
C30_HistoryAfterAnswer ==
    [][pc = "ProposalConfirm" /\ event'.kind = "text" =>
        IF IsYes(event'.text)
        THEN chat_history' =
                 chat_history \o <<User(AcceptedNote), Assistant(extracted_proposal_text[1])>>
        ELSE /\ chat_history' =
                    Append(chat_history,
                           Assistant(IF conversational_parts_to_print # <<>>
                                     THEN JoinLines(conversational_parts_to_print)
                                     ELSE RejectedNote))
             /\ chat_history'[Len(chat_history')].content # <<>>
             /\ chat_history'[Len(chat_history')].content # extracted_proposal_text[1]]_vars

\* C30 witness: a proposal without text around it was rejected after another
\* one was accepted; the history ends with the placeholder
C30_Witness ==
    /\ pc = "Prompting"
    /\ echo = "Proposal rejected. Current draft remains unchanged."
    /\ AcceptedCount = 1
    /\ chat_history[Len(chat_history)] = Assistant(RejectedNote)
    /\ conversational_parts_to_print = <<>>

(***************************************************************************)
(* Claims about the answers, the drafts and the history of a session,      *)
(* checked under Spec.                                                     *)
(***************************************************************************)
\* an answer that says yes: nothing, y or yes, in any case, blanks around it
Affirmative(answer) == ToLower(Strip(answer)) \in { <<>>, <<"y">>, <<"y","e","s">> }

\* an answer that says no
Negative(answer) == ToLower(Strip(answer)) \in { <<"n">>, <<"n","o">> }

\* C31: at the apply confirmation every affirmative answer (empty, y, yes, any
\* case, blanks ignored) ends the session as Applied, at the proposal
\* confirmation it makes the proposal the draft; only a negative answer leads
\* back to the query prompt without that effect.
C31_AffirmativeAnswersCount ==
    [][/\ (pc = "ApplyConfirm" /\ event'.kind = "text" =>
            IF Affirmative(event'.text)
            THEN pc' = "Applied" /\ returned' = Some(message_being_refined_in_chat)
            ELSE Negative(event'.text))
       /\ (pc = "ProposalConfirm" /\ event'.kind = "text" =>
            IF Affirmative(event'.text)
            THEN message_being_refined_in_chat' = extracted_proposal_text[1]
            ELSE Negative(event'.text))]_vars

\* C34: once a proposal has been accepted the draft is not blank; an apply is
\* refused with 'Current draft is empty' only on a blank seed with no proposal
\* accepted, and a confirmed apply never returns a blank text.
C34_DraftNonBlankAfterAccept ==
    /\ AcceptedCount >= 1 => ~IsBlank(message_being_refined_in_chat)
    /\ echo = "Current draft is empty. Cannot apply." =>
          /\ AcceptedCount = 0
          /\ IsBlank(initial_commit_draft)
          /\ message_being_refined_in_chat = initial_commit_draft
    /\ pc = "Applied" => returned # None /\ ~IsBlank(returned[1])
    /\ extracted_proposal_text # None => ~IsBlank(extracted_proposal_text[1])

\* C34 witness: on a blank seed a proposal was accepted and then the apply
\* was confirmed
C34_Witness ==
    /\ pc = "Applied"
    /\ IsBlank(initial_commit_draft)
    /\ initial_commit_draft # <<>>
    /\ AcceptedCount = 1
    /\ returned = Some(<<"p">>)

\* C35: the roles of the history alternate, beginning with a user turn: no
\* two neighbours have the same role.
C35_RolesAlternate ==
    /\ chat_history # <<>> => chat_history[1].role = "user"
    /\ \A i \in 1..(Len(chat_history) - 1) :
          chat_history[i].role # chat_history[i + 1].role

\* a command token as a text: /cancel or /apply in any case
IsCommandToken(text) == ToLower(text) \in {CancelCommand, ApplyCommand}

\* C36: a Cancel or Apply turn does not call the model and leaves the history
\* and the context of the latest call as they were, through its confirmation
\* too; no user turn of the history or of a context sent to the model holds
\* /cancel or /apply.
C36_CommandsNeverSent ==
    [][/\ (pc = "Prompting" /\ (CancelIssued(event') \/ ApplyIssued(event')) =>
            /\ pc' # "ChatPending"
            /\ chat_history' = chat_history
            /\ messages_for_llm' = messages_for_llm)
       /\ (pc = "ApplyConfirm" =>
            /\ pc' # "ChatPending"
            /\ chat_history' = chat_history
            /\ messages_for_llm' = messages_for_llm)
       /\ (Len(chat_history') # Len(chat_history) =>
            pc \in {"Prompting", "ChatPending", "ProposalConfirm"})
       /\ \A i \in DOMAIN chat_history' :
            chat_history'[i].role = "user" => ~IsCommandToken(chat_history'[i].content)
       /\ \A i \in DOMAIN messages_for_llm' :
            messages_for_llm'[i].role = "user" =>
                ~IsCommandToken(messages_for_llm'[i].content)]_vars

\* C36 witness: after a chat turn, an apply was asked for and not confirmed
\* and the session was cancelled; the history holds the one query
C36_Witness ==
    /\ pc = "Cancelled"
    /\ echo = "Chat cancelled. Returning original draft."
    /\ final_message_to_apply # <<>>
    /\ Len(chat_history) = 2
    /\ chat_history[1] = User(<<"b">>)
    /\ Len(messages_for_llm) = 2

(***************************************************************************)
(* Claims about resolve_editor, checked under SpecResolve.                 *)
(***************************************************************************)
\* C32: resolve_editor with use_external_flag set selects environment mode
\* whatever the persisted setting: it returns ('env', the editor found) or,
\* if none is found, ('internal', None), never ('command', persisted).
C32_FlagSelectsEnvironment ==
    (cmd_pc = "Returned" /\ use_external_flag) =>
        /\ editor_mode # CommandMode
        /\ IF Truthy(get_editor_from_env(environ, git_config))
           THEN editor_mode = EnvMode /\ editor_cmd = get_editor_from_env(environ, git_config)
           ELSE editor_mode = InternalMode /\ editor_cmd = None

(***************************************************************************)
(* Claims about the built-in editor around a session, checked under        *)
(* SpecEditor.                                                             *)
(***************************************************************************)
\* C33: a session opened by Ctrl+I on the buffer text T leaves the buffer T
\* while it runs; when it returns cancelled the buffer is still T, when it
\* returns applied the buffer is the text it returned; the editor is at its
\* prompt again, and _execute_git_commit is called only in the step that
\* submits the editor.
C33_BufferAfterSession ==
    [][/\ (cmd_pc = "ChatRefine" =>
            /\ buffer = Some(initial_commit_draft)
            /\ commit_calls = <<>>
            /\ cmd_pc' \in {"ChatRefine", "InternalEditor"})
       /\ (cmd_pc = "ChatRefine" /\ cmd_pc' = "InternalEditor" =>
            /\ pc \in {"Cancelled", "Applied"}
            /\ pc = "Cancelled" => buffer' = Some(initial_commit_draft)
            /\ pc = "Applied" => buffer' = returned
            /\ commit_calls' = <<>>
            /\ subprocess_log' = subprocess_log
            /\ final_message' = None)
       /\ (commit_calls' # commit_calls =>
            /\ cmd_pc = "InternalEditor"
            /\ cmd_event'.kind = "text"
            /\ commit_calls' = <<cmd_event'.text>>)]_<<vars, command_vars>>

\* C33 witness: a session that accepted a proposal was applied, and the
\* editor was then submitted with the text the session put into the buffer
C33_Witness ==
    /\ cmd_pc = "ProceedConfirm"
    /\ pc = "Applied"
    /\ AcceptedCount = 1
    /\ returned # Some(initial_commit_draft)
    /\ final_message = returned
    /\ commit_calls = <<returned[1]>>

(***************************************************************************)
(* Claims about the commit and the push, checked under SpecCommand.        *)
(***************************************************************************)
\* the process a step starts, "" if it starts none
StartedNow ==
    IF Len(subprocess_log') > Len(subprocess_log)
    THEN subprocess_log'[Len(subprocess_log')]
    ELSE ""

\* the confirmation a step asks
AskedNow == confirm_log'[Len(confirm_log')]

\* an answer that affirms in so many words: y or yes
ExplicitYes(answer) == ToLower(Strip(answer)) \in { <<"y">>, <<"y","e","s">> }

\* C37: git commit is run only in answer to a 'Proceed?' that was not
\* declined; the push is asked about only after git commit succeeded, and
\* git push is run only in answer to that question, affirmed by y or yes; a
\* declined 'Proceed?', a failed commit and an empty answer to the push
\* question end the command without a push.
C37_PushOnlyAfterCommitAndYes ==
    [][/\ (StartedNow = "git commit" =>
            /\ cmd_pc = "ProceedConfirm"
            /\ Len(confirm_log') = Len(confirm_log) + 1
            /\ AskedNow.prompt = "Proceed?"
            /\ ~Negative(AskedNow.answer))
       /\ (cmd_pc' = "PushConfirm" =>
            /\ cmd_pc = "ProceedConfirm"
            /\ StartedNow = "git commit"
            /\ cmd_event'.kind = "completed")
       /\ (StartedNow = "git push" =>
            /\ cmd_pc = "PushConfirm"
            /\ Started("git commit")
            /\ Len(confirm_log') = Len(confirm_log) + 1
            /\ AskedNow.prompt = "push"
            /\ ExplicitYes(AskedNow.answer))
       /\ (cmd_pc = "ProceedConfirm" /\ cmd_pc' # "PushConfirm" =>
            /\ cmd_pc' = "Returned"
            /\ StartedNow # "git push")
       /\ (cmd_pc = "PushConfirm" /\ IsBlank(AskedNow.answer) =>
            /\ cmd_pc' = "Returned"
            /\ StartedNow = "")
       /\ (cmd_pc = "Returned" => cmd_pc' = "Returned" /\ StartedNow = "")]_<<vars, command_vars>>

\* C37 witness: the commit was confirmed and succeeded, the push was
\* affirmed with y and failed
C37_Witness ==
    /\ cmd_pc = "Returned"
    /\ cmd_echo = "Error during git push"
    /\ Len(subprocess_log) >= 3
    /\ subprocess_log[Len(subprocess_log) - 1] = "git commit"
    /\ subprocess_log[Len(subprocess_log)] = "git push"
    /\ confirm_log[Len(confirm_log)] = Confirmation("push", <<"y">>, FALSE)

====
